---- MODULE Spec2Model ----
(***************************************************************************)
(* Model of the audio timeline builder and the caption compositor of the   *)
(* short-video generator: run_one / _concat_with_gaps (main.py) and        *)
(* build_video (subtitle_video.py).                                        *)
(*                                                                         *)
(* Audio is kept the way pydub keeps it: as a number of sample frames at a *)
(* frame rate.  len(segment) is the frame count converted to milliseconds  *)
(* and rounded to an integer; AudioSegment.silent(duration=d) is d ms of   *)
(* frames; a + b concatenates the frames.  Slot durations are held in      *)
(* milliseconds (the code stores ms / 1000.0 seconds).                     *)
(***************************************************************************)
EXTENDS Integers, Sequences, FiniteSets, TLC

\* ------------------------------------------------------------------ bounds
MaxWords        == 1    \* vocabulary words of one run (3 dialogue lines each)
MaxSilMs        == 1    \* largest leading silence / gap of the small configurations
MinMsSmall      == 2    \* minimum utterance length of the small configurations
MaxClipFrames   == 4    \* longest synthesized clip of the small configurations, in frames
MaxTextLines    == 4    \* most rendered text lines of one caption row
MaxDriftMs      == 40   \* largest length change of the external enhance/encode step
MaxMissing      == 1    \* most clip files of one run that fail to decode
MaxTailLen      == 2    \* longest free tail of a row text, in characters
MaxChunks       == 2    \* most chunks of one uploaded file
MaxSceneLen     == 76   \* longest scene of a hook theme, in characters
MaxCombos       == 2    \* most combos of combos.yaml

\* --------------------------------------------------- constants of main.py
GAP_MS       == 120
PRE_SIL_MS   == 120
MIN_UTTER_MS == 1000
cache_ttl_minutes == 60 \* run_all: get_trend_candidates(..., cache_ttl_minutes=60)

\* --------------------------------------------------- constants of hook.py
HOOK_MAX_CHARS == 85    \* default of the environment variable HOOK_MAX_CHARS

\* ------------------------------------------- constants of upload_youtube.py
max_attempts == 5       \* _RetryPolicy.max_attempts
base_sleep   == 2       \* _RetryPolicy.base_sleep, seconds

\* ------------------------------------------- constants of subtitle_video.py
SCREEN_W      == 1080
SCREEN_H      == 1920
TEXT_W        == 880
POS_Y         == 920
BOTTOM_MARGIN == 40
PAD_X         == 22
PAD_Y         == 16
SHIFT_X       == -45
LINE_GAP_TOP_TO_FURI == 22
LINE_GAP_FURI_TO_BOT == 26
LINE_GAP_DEFAULT     == 28
VIDEO_FPS     == 30
FONT_SIZE_TOP  == 50
CJK_WIDTH_TOP  == 16
FONT_SIZE_FURI == 42
CJK_WIDTH_FURI == 20
FONT_SIZE_BOT  == 45
CJK_WIDTH_BOT  == 18
MinCols        == 8     \* the least column budget of a Latin row

VARIABLES
    pc,              \* position in run_one / build_video
    cfg,             \* gap_ms, pre_ms, min_ms of the run, frame rate and lengths of the clips
    valid_dialogue,  \* the utterances, in order
    hook_offset,     \* 1 when a hook line was inserted at the head
    subs,            \* number of subtitle rows (len(subs))
    audio_parts,     \* clip files written by speak(), in order
    sub_rows,        \* sub_rows[r] = subtitle texts of row r, one per utterance
    combined,        \* the audio track under construction, as a sequence of pieces
    durs,            \* slot durations emitted by _concat_with_gaps (ms)
    full_ms,         \* duration of the audio file handed to build_video (ms)
    lines_data,      \* rows of lines.json: speaker, row texts, duration
    monologue_center,\* build_video flag
    measure,         \* measure[i][r] = rendered size of row r of item i
    clips,           \* video segments composed so far
    video,           \* the written video, or NoVideo
    row_str,         \* row_str[i][r] = the characters of the text of row r of item i
    params,          \* build_video arguments: fsize_top, fsize_furi, fsize_bot, hide_n_label
    example_ctx,     \* per utterance: the example handed to translate_word_context, if called
    attempt,         \* _resumable_insert: failed next_chunk calls so far
    response,        \* _resumable_insert: the upload response, or NoResponse
    media,           \* the resumable upload: chunks of the file, chunks sent, error state
    calls,           \* outcome of every next_chunk call, in order
    sleeps,          \* seconds of every time.sleep of _resumable_insert, in order
    raised,          \* the exception that left _resumable_insert, or NoError
    hook_args,       \* generate_hook: its arguments, environment and translate() results
    hook_out,        \* generate_hook: the returned text
    combos_yaml,     \* the combos of combos.yaml, in file order
    invocation,      \* the command line and environment of the invoked main.py
    parent_i,        \* parent run_all: index of the combo whose child is spawned next
    child,           \* the isolated process: TARGET_ONLY, topic, loop index, position
    trend_cache,     \* temp/trends/trends_<lang>.json: saved or not, and its _ts
    clock,           \* time.time(), in minutes
    run_log,         \* the run_one calls, in order
    trend_log        \* the get_trend_candidates calls, in order

vars == <<pc, cfg, valid_dialogue, hook_offset, subs, audio_parts, sub_rows,
          combined, durs, full_ms, lines_data, monologue_center, measure,
          clips, video, row_str, params, example_ctx,
          attempt, response, media, calls, sleeps, raised,
          hook_args, hook_out,
          combos_yaml, invocation, parent_i, child, trend_cache, clock, run_log, trend_log>>

pipelineVars == <<pc, cfg, valid_dialogue, hook_offset, subs, audio_parts, sub_rows,
                  combined, durs, full_ms, lines_data, monologue_center, measure,
                  clips, video, row_str, params, example_ctx>>

uploadVars == <<attempt, response, media, calls, sleeps, raised>>

hookVars == <<hook_args, hook_out>>

runAllVars == <<combos_yaml, invocation, parent_i, child, trend_cache, clock, run_log,
                trend_log>>

\* ----------------------------------------------------------------- helpers
RECURSIVE SumSeq(_)
SumSeq(s) == IF s = <<>> THEN 0 ELSE Head(s) + SumSeq(Tail(s))

Max2(a, b) == IF a >= b THEN a ELSE b

\* Python round(n / d): to nearest, ties to even
py_round(n, d) ==
    LET q == n \div d
        r == n % d
    IN  IF 2 * r < d THEN q
        ELSE IF 2 * r > d THEN q + 1
        ELSE IF q % 2 = 0 THEN q ELSE q + 1

\* len(AudioSegment): frames -> rounded milliseconds
len_ms(frames, rate) == py_round(1000 * frames, rate)

\* AudioSegment.silent(duration=ms), in frames of the track's rate
silent(ms, rate) == (ms * rate) \div 1000

\* a clip path whose file is missing or does not decode
Missing == [ok |-> FALSE, frames |-> 0]
\* a clip file that decodes to the given number of frames
clip_file(f) == [ok |-> TRUE, frames |-> f]
NoVideo == [written |-> FALSE]

\* run_one and build_video are not running
PipelineIdle ==
    /\ pc = "idle"
    /\ cfg = [gap_ms |-> GAP_MS, pre_ms |-> PRE_SIL_MS, min_ms |-> MIN_UTTER_MS,
              rate |-> 1000, script |-> <<>>]
    /\ valid_dialogue = <<>>
    /\ hook_offset = 0
    /\ subs = 1
    /\ audio_parts = <<>>
    /\ sub_rows = <<>>
    /\ combined = <<>>
    /\ durs = <<>>
    /\ full_ms = 0
    /\ lines_data = <<>>
    /\ monologue_center = FALSE
    /\ measure = <<>>
    /\ clips = <<>>
    /\ video = [written |-> FALSE]
    /\ row_str = <<>>
    /\ params = [fsize_top |-> 0, fsize_furi |-> 0, fsize_bot |-> 0, hide_n_label |-> TRUE]
    /\ example_ctx = <<>>

\* no exception
NoError == [type |-> "none", status |-> 0, quota |-> FALSE, backend |-> FALSE]
\* response is None
NoResponse == "None"

\* no upload was started
NoUpload ==
    /\ attempt = 0
    /\ response = NoResponse
    /\ media = [chunks |-> 0, sent |-> 0, in_error |-> FALSE]
    /\ calls = <<>>
    /\ sleeps = <<>>
    /\ raised = NoError

\* generate_hook was not called
NoHookCall ==
    /\ hook_args = [theme |-> <<>>, audio_lang |-> "", pattern_hint |-> "", keyword |-> "",
                    hook_speaker |-> "", hook_ab |-> 0,
                    tr_f |-> [ok |-> FALSE, text |-> <<>>],
                    tr_s |-> [ok |-> FALSE, text |-> <<>>]]
    /\ hook_out = [returned |-> FALSE, text |-> <<>>]

\* run_all was not called
NoRunAll ==
    /\ combos_yaml = <<>>
    /\ invocation = [topic |-> "", target_only |-> "", isolated |-> FALSE]
    /\ parent_i = 0
    /\ child = [running |-> FALSE, id |-> 0, target_only |-> "", topic |-> "", i |-> 0,
                at |-> "exit", trend |-> "none"]
    /\ trend_cache = [l \in {"en", "ja"} |-> [saved |-> FALSE, ts |-> 0]]
    /\ clock = 0
    /\ run_log = <<>>
    /\ trend_log = <<>>

\* ------------------------------------------------------------ input domains
\* clips of 900, 1200 and 700 ms with the default parameters
Scenario1Config ==
    [gap_ms |-> GAP_MS, pre_ms |-> PRE_SIL_MS, min_ms |-> MIN_UTTER_MS,
     rate |-> 1000, script |-> <<900, 1200, 700>>]

\* Frame rate of the decoded clips, scaled down (3 frames per millisecond
\* stand for the 24 or 44.1 per millisecond of real files): a clip length
\* need not be a whole number of milliseconds, and no length falls on an
\* exact half millisecond.
\* script: the clip lengths the synthesis returns, utterance after utterance
\* (repeated cyclically); <<>> leaves the length of every clip open
Configs ==
    [gap_ms : {0, MaxSilMs}, pre_ms : {0, MaxSilMs}, min_ms : {0, MinMsSmall},
     rate : {3000}, script : {<<>>}]
    \cup {Scenario1Config}

\* frame counts the clip of utterance i may decode to
ClipChoices(c, i) ==
    IF c.script # <<>> THEN {c.script[((i - 1) % Len(c.script)) + 1]}
    ELSE {0, MaxClipFrames}

HookLine == [word |-> 0, role |-> 0 - 1]

\* run_one: three lines per vocabulary word: word, word, example
RECURSIVE Dialogue(_)
Dialogue(w) ==
    IF w = 0 THEN <<>>
    ELSE Dialogue(w - 1) \o <<[word |-> w, role |-> 0], [word |-> w, role |-> 1],
                              [word |-> w, role |-> 2]>>

Sizes       == [w : {TEXT_W}, h : {81 * k : k \in 1..MaxTextLines}]
SmallSize   == [w |-> TEXT_W, h |-> 81]


MaxItems == 3 * MaxWords + 1

\* ------------------------------------------------- main.py: _concat_with_gaps
\* variant: the gap is added after every clip, the last one included
extra_gap_every(idx, n, gap_ms) == gap_ms

\* extra = gap_ms if idx < len(audio_paths) - 1 else 0
extra_gap(idx, n, gap_ms) == IF idx < n - 1 THEN gap_ms ELSE 0

\* variant: short clips are not padded
pad_ms_never(seg_len, min_ms) == 0

\* if len(seg) < min_ms: seg += AudioSegment.silent(duration=min_ms - len(seg))
pad_ms(seg_len, min_ms) == IF seg_len < min_ms THEN min_ms - seg_len ELSE 0

\* variant: the gap is not counted in the slot
slot_ms_nogap(seg_ms, extra) == seg_ms

\* durs.append((seg_ms + extra) / 1000.0), kept in milliseconds
slot_ms(seg_ms, extra) == seg_ms + extra

\* one iteration of the loop over audio_paths: the pieces appended to
\* combined and the slot duration appended to durs
concat_iter(idx, n, clip, c) ==
    LET pre     == silent(c.pre_ms, c.rate)
        seg0    == pre + clip
        pad     == silent(pad_ms(len_ms(seg0, c.rate), c.min_ms), c.rate)
        seg     == seg0 + pad
        seg_ms  == len_ms(seg, c.rate)
        extra   == extra_gap(idx, n, c.gap_ms)
    IN  [pieces |->
            <<[kind |-> "pre", idx |-> idx, frames |-> pre],
              [kind |-> "clip", idx |-> idx, frames |-> clip]>>
            \o (IF len_ms(seg0, c.rate) < c.min_ms
                THEN <<[kind |-> "pad", idx |-> idx, frames |-> pad]>> ELSE <<>>)
            \o (IF extra # 0
                THEN <<[kind |-> "gap", idx |-> idx, frames |-> silent(extra, c.rate)]>>
                ELSE <<>>),
         seg_ms |-> seg_ms,
         dur |-> slot_ms(seg_ms, extra)]

RECURSIVE TrackFrames(_)
TrackFrames(track) ==
    IF track = <<>> THEN 0 ELSE Head(track).frames + TrackFrames(Tail(track))

\* len(combined)
track_ms(track, rate) == len_ms(TrackFrames(track), rate)

\* ------------------------------------------------------- main.py: run_one
\* subtitle text of row r for one utterance (cleaned source line or its translation)
sub_text(line, r) == [of |-> line, row |-> r]

\* the role of utterance i (counted from 1) as the TTS loop computes it:
\* -1 for the hook, else the position in the word/word/example block
role_idx_of(i, offset) ==
    IF offset = 1 /\ i = 1 THEN 0 - 1 ELSE (i - 1 - offset) % 3

\* the empty string _example_for_index returns when there is no such line
EmptyExample == [word |-> 0, role |-> 0 - 2]

\* _example_for_index(valid_dialogue, idx0), idx0 counted from 0
_example_for_index(vd, idx0) ==
    LET role_idx == idx0 % 3
        base     == idx0 - role_idx
        ex_pos   == base + 2
    IN  IF 0 <= ex_pos /\ ex_pos < Len(vd) THEN vd[ex_pos + 1] ELSE EmptyExample

\* the subtitle loop for utterance i: translate_word_context is called for
\* the rows in another language than the audio (the rows after the first)
\* when the role is 0 or 1, with the example of _example_for_index
word_context(vd, i, offset, nsubs) ==
    IF nsubs >= 2 /\ role_idx_of(i, offset) \in {0, 1}
    THEN [called |-> TRUE, example |-> _example_for_index(vd, i - 1)]
    ELSE [called |-> FALSE, example |-> EmptyExample]

\* variant: the rows are zipped from the second utterance on
build_lines_data_skip_first(vd, new_durs, rows_of, nsubs) ==
    [i \in 1..(Len(vd) - 1) |->
        [spk |-> "N",
         rows |-> [r \in 1..nsubs |-> rows_of[r][i + 1]],
         dur |-> new_durs[i]]]

\* lines.json: one row per (utterance, duration) pair of zip(valid_dialogue, new_durs)
build_lines_data(vd, new_durs, rows_of, nsubs) ==
    LET n == IF Len(vd) <= Len(new_durs) THEN Len(vd) ELSE Len(new_durs)
    IN  [i \in 1..n |->
            [spk |-> "N",
             rows |-> [r \in 1..nsubs |-> rows_of[r][i]],
             dur |-> new_durs[i]]]

\* --------------------------------------------- subtitle_video.py: the texts
\* A text is a sequence of characters.  A character is written as itself
\* (Latin letters, "-", "/", ":", " ") or as the name of its class:
\* KANA (hiragana and katakana, U+3040-30FF), KANJI (U+4E00-9FFF),
\* HWKANA (halfwidth katakana, U+FF66-FF9F), HANGUL.
NL == "\n"
None == <<"None">>

LatinLetters ==
    {"a", "b", "c", "d", "e", "f", "g", "h", "i", "j", "k", "l", "m", "n", "o",
     "p", "q", "r", "s", "t", "u", "v", "w", "x", "y", "z", "A", "N"}
\* unicodedata.name(ch) contains "HANGUL"
HangulNamed == {"HANGUL"}
\* unicodedata.name(ch) contains "CJK", "HIRAGANA" or "KATAKANA"
CjkNamed == {"KANA", "KANJI", "HWKANA"}
\* textwrap: letter = [^\d\W], \w, and word_punct = [\w!"'&.,?]
Letters == LatinLetters \cup CjkNamed \cup HangulNamed
WordPunct == Letters

\* variant: a missing text is turned into its printed form, str(text)
or_empty_str(text) == IF text = None THEN <<"N", "o", "n", "e">> ELSE text

\* text or ""
or_empty(text) == IF text = None THEN <<>> ELSE text

\* str.strip()
RECURSIVE lstrip(_)
lstrip(t) == IF t # <<>> /\ Head(t) = " " THEN lstrip(Tail(t)) ELSE t
RECURSIVE rstrip(_)
rstrip(t) ==
    IF t # <<>> /\ t[Len(t)] = " " THEN rstrip(SubSeq(t, 1, Len(t) - 1)) ELSE t
strip(t) == rstrip(lstrip(t))

\* sep.join(parts)
RECURSIVE join(_, _)
join(sep, parts) ==
    IF parts = <<>> THEN <<>>
    ELSE IF Len(parts) = 1 THEN parts[1]
    ELSE parts[1] \o sep \o join(sep, Tail(parts))

\* str.split(): the maximal runs of characters that are not whitespace
RECURSIVE split_from(_, _)
split_from(t, cur) ==
    IF t = <<>> THEN (IF cur = <<>> THEN <<>> ELSE <<cur>>)
    ELSE IF Head(t) = " "
         THEN (IF cur = <<>> THEN <<>> ELSE <<cur>>) \o split_from(Tail(t), <<>>)
         ELSE split_from(Tail(t), Append(cur, Head(t)))
split(t) == split_from(t, <<>>)

\* re.search(r"[぀-ヿ一-鿿]", t)
has_cjk(t) == \E j \in DOMAIN t : t[j] \in {"KANA", "KANJI"}
\* _ASCII_RE.match(t)
is_ascii(t) ==
    t # <<>> /\ \A j \in DOMAIN t : t[j] \in LatinLetters \cup {"-", "/", ":", " "}

\* -------------------------------------------------------- textwrap (3.10+)
\* the character at position p, "" outside the text
At(t, p) == IF p >= 1 /\ p <= Len(t) THEN t[p] ELSE ""

RECURSIVE RunLen(_, _, _)
RunLen(t, p, S) == IF At(t, p) \in S THEN 1 + RunLen(t, p + 1, S) ELSE 0

\* wordsep_re, em-dash between words: (?<=wp) -{2,} (?=\w)
em_dash_at(t, p) ==
    /\ RunLen(t, p, {"-"}) >= 2
    /\ At(t, p - 1) \in WordPunct
    /\ At(t, p + RunLen(t, p, {"-"})) \in Letters

\* wordsep_re, hyphenated word: the hyphen at q follows two letters (or
\* letter-hyphen-letter) and is followed by letter, optional hyphen, letter
hyphen_break_at(t, q) ==
    /\ At(t, q) = "-"
    /\ \/ At(t, q - 2) \in Letters /\ At(t, q - 1) \in Letters
       \/ At(t, q - 3) \in Letters /\ At(t, q - 2) = "-" /\ At(t, q - 1) \in Letters
    /\ At(t, q + 1) \in Letters
    /\ \/ At(t, q + 2) \in Letters
       \/ At(t, q + 2) = "-" /\ At(t, q + 3) \in Letters

\* wordsep_re, word: the shortest run of L characters from p that ends before
\* a breaking hyphen (which it takes along), before whitespace or the end,
\* or before an em-dash
RECURSIVE word_chunk_len(_, _, _)
word_chunk_len(t, p, L) ==
    LET q == p + L
    IN  IF hyphen_break_at(t, q) THEN L + 1
        ELSE IF q > Len(t) \/ At(t, q) = " " THEN L
        ELSE IF At(t, q - 1) \in WordPunct /\ em_dash_at(t, q) THEN L
        ELSE word_chunk_len(t, p, L + 1)

chunk_len(t, p) ==
    IF At(t, p) = " " THEN RunLen(t, p, {" "})
    ELSE IF em_dash_at(t, p) THEN RunLen(t, p, {"-"})
    ELSE word_chunk_len(t, p, 1)

\* TextWrapper._split: the chunks of the text from position p on
RECURSIVE split_chunks_from(_, _)
split_chunks_from(t, p) ==
    IF p > Len(t) THEN <<>>
    ELSE <<SubSeq(t, p, p + chunk_len(t, p) - 1)>>
            \o split_chunks_from(t, p + chunk_len(t, p))
split_chunks(t) == split_chunks_from(t, 1)

\* chunk.strip() == ''
is_blank(chunk) == \A j \in DOMAIN chunk : chunk[j] = " "

total_len(cur_line) == SumSeq([j \in DOMAIN cur_line |-> Len(cur_line[j])])

\* _wrap_chunks, inner loop: chunks are added while they fit
RECURSIVE fill_line(_, _, _)
fill_line(chunks, cur_line, width) ==
    IF chunks # <<>> /\ total_len(cur_line) + Len(Head(chunks)) <= width
    THEN fill_line(Tail(chunks), Append(cur_line, Head(chunks)), width)
    ELSE [cur_line |-> cur_line, chunks |-> chunks]

\* chunk.rfind('-', 0, space_left), counted from 1; 0 when there is none
RECURSIVE rfind_hyphen(_, _)
rfind_hyphen(chunk, j) ==
    IF j < 1 THEN 0
    ELSE IF At(chunk, j) = "-" THEN j
    ELSE rfind_hyphen(chunk, j - 1)

\* _handle_long_word with break_long_words and break_on_hyphens
handle_long_word(chunks, cur_line, width) ==
    LET space_left == width - total_len(cur_line)
        chunk      == Head(chunks)
        hyphen     == rfind_hyphen(chunk, IF space_left < Len(chunk)
                                          THEN space_left ELSE Len(chunk))
        end        == IF /\ Len(chunk) > space_left
                         /\ hyphen > 1
                         /\ \E j \in 1..(hyphen - 1) : chunk[j] # "-"
                      THEN hyphen ELSE space_left
    IN  [cur_line |-> Append(cur_line, SubSeq(chunk, 1, end)),
         chunks   |-> <<SubSeq(chunk, end + 1, Len(chunk))>> \o Tail(chunks)]

\* _wrap_chunks with drop_whitespace: the lines made of the chunks
RECURSIVE wrap_chunks(_, _, _)
wrap_chunks(chunks, width, lines) ==
    IF chunks = <<>> THEN lines
    ELSE
      LET start  == IF is_blank(Head(chunks)) /\ lines # <<>>
                    THEN Tail(chunks) ELSE chunks
          filled == fill_line(start, <<>>, width)
          longw  == IF filled.chunks # <<>> /\ Len(Head(filled.chunks)) > width
                    THEN handle_long_word(filled.chunks, filled.cur_line, width)
                    ELSE filled
          cur    == IF longw.cur_line # <<>>
                       /\ is_blank(longw.cur_line[Len(longw.cur_line)])
                    THEN SubSeq(longw.cur_line, 1, Len(longw.cur_line) - 1)
                    ELSE longw.cur_line
      IN  wrap_chunks(longw.chunks, width,
                      IF cur # <<>> THEN Append(lines, join(<<>>, cur)) ELSE lines)

\* textwrap.wrap(text, width, break_long_words=True)
textwrap_wrap(text, width) == wrap_chunks(split_chunks(text), width, <<>>)
\* textwrap.fill(text, width=cols, break_long_words=True, break_on_hyphens=True)
textwrap_fill(text, width) == join(<<NL>>, textwrap_wrap(text, width))

\* ------------------------------------- subtitle_video.py: the line wrappers
\* textwrap.wrap for a text with a character of the CJK range, else the text
wrap_cjk(text, width) ==
    IF has_cjk(or_empty(text)) THEN join(<<NL>>, textwrap_wrap(text, width))
    ELSE or_empty(text)

\* re.split(r"([-/])", tok): the runs between the separators (empty runs
\* included) alternating with the separators
RECURSIVE re_split_sep(_, _)
re_split_sep(t, cur) ==
    IF t = <<>> THEN <<cur>>
    ELSE IF Head(t) \in {"-", "/"}
         THEN <<cur, <<Head(t)>>>> \o re_split_sep(Tail(t), <<>>)
         ELSE re_split_sep(Tail(t), Append(cur, Head(t)))

\* _split_long_token: the while loop over one part p
RECURSIVE take_loop(_, _, _, _)
take_loop(p, limit, cur, merged) ==
    IF Len(p) = 0 THEN [cur |-> cur, merged |-> merged]
    ELSE
      LET flush  == limit - Len(cur) <= 0
          cur1   == IF flush THEN <<>> ELSE cur
          mer1   == IF flush THEN Append(merged, cur) ELSE merged
          take   == IF flush THEN limit ELSE limit - Len(cur)
          n      == IF take < Len(p) THEN take ELSE Len(p)
          cur2   == cur1 \o SubSeq(p, 1, n)
          rest   == SubSeq(p, n + 1, Len(p))
      IN  IF Len(cur2) >= limit
          THEN take_loop(rest, limit, <<>>, Append(mer1, cur2))
          ELSE take_loop(rest, limit, cur2, mer1)

\* _split_long_token: the loop over the parts; a separator (and an empty
\* part, which is also `in "-/"`) is appended to cur without any test
RECURSIVE parts_loop(_, _, _, _)
parts_loop(parts, limit, cur, merged) ==
    IF parts = <<>> THEN (IF cur # <<>> THEN Append(merged, cur) ELSE merged)
    ELSE
      LET p == Head(parts)
      IN  IF p \in {<<"-">>, <<"/">>, <<>>}
          THEN parts_loop(Tail(parts), limit, cur \o p, merged)
          ELSE LET r == take_loop(p, limit, cur, merged)
               IN  parts_loop(Tail(parts), limit, r.cur, r.merged)

_split_long_token(tok, limit) ==
    IF Len(tok) <= limit THEN <<tok>>
    ELSE parts_loop(re_split_sep(tok, <<>>), limit, <<>>, <<>>)

\* wrap_ascii_hard: the tokens with the long ASCII ones cut up
RECURSIVE fix_tokens(_, _)
fix_tokens(toks, cols) ==
    IF toks = <<>> THEN <<>>
    ELSE (IF Len(Head(toks)) > cols /\ is_ascii(Head(toks))
          THEN _split_long_token(Head(toks), cols)
          ELSE <<Head(toks)>>) \o fix_tokens(Tail(toks), cols)

wrap_ascii_hard(text, cols) ==
    textwrap_fill(join(<<" ">>, fix_tokens(split(or_empty(text)), cols)), cols)

\* max(8, int(TEXT_W / (font_size * 0.58)))
approx_char_per_line(font_size) == Max2(MinCols, (TEXT_W * 100) \div (font_size * 58))

\* variant: CJK rows are wrapped at the column budget of the font size
_prep_line_cols(text, font_size, cjk_width) ==
    LET t == strip(or_empty(text))
    IN  IF t = <<>> THEN t
        ELSE IF has_cjk(t) THEN wrap_cjk(t, approx_char_per_line(font_size))
        ELSE wrap_ascii_hard(t, approx_char_per_line(font_size))

_prep_line(text, font_size, cjk_width) ==
    LET t == strip(or_empty(text))
    IN  IF t = <<>> THEN t
        ELSE IF has_cjk(t) THEN wrap_cjk(t, cjk_width)
        ELSE wrap_ascii_hard(t, approx_char_per_line(font_size))

\* variant: any Hangul character in the text decides for the Korean font
pick_font_any_hangul(text) ==
    IF \E j \in DOMAIN text : text[j] \in HangulNamed THEN "FONT_KO"
    ELSE IF \E j \in DOMAIN text : text[j] \in CjkNamed THEN "FONT_JP"
    ELSE "FONT_LATN"

\* pick_font: the first character with a Hangul or a CJK/kana name decides
RECURSIVE pick_font(_)
pick_font(text) ==
    IF text = <<>> THEN "FONT_LATN"
    ELSE IF Head(text) \in HangulNamed THEN "FONT_KO"
    ELSE IF Head(text) \in CjkNamed THEN "FONT_JP"
    ELSE pick_font(Tail(text))

\* ------------------------------------------- subtitle_video.py: build_video
\* variant: the offset is computed from the text width for every element
xpos_text_w(w) == ((SCREEN_W - TEXT_W) \div 2) + SHIFT_X

xpos(w) == ((SCREEN_W - w) \div 2) + SHIFT_X
xpos_center(w) == (SCREEN_W - w) \div 2
posf(w, centered) == IF centered THEN xpos_center(w) ELSE xpos(w)

_bg(txt) == [w |-> txt.w + PAD_X * 2, h |-> txt.h + PAD_Y * 2]

LINE_GAPS(rows) ==
    IF rows = 2 THEN <<LINE_GAP_DEFAULT, LINE_GAP_FURI_TO_BOT>>
    ELSE <<LINE_GAP_TOP_TO_FURI, LINE_GAP_FURI_TO_BOT>>

\* variant: every row is placed below row 0 only, the height of the rows
\* in between is not accumulated
RECURSIVE place_rows_flat(_, _, _, _)
place_rows_flat(n, sz, rows, centered) ==
    IF n = 0 THEN [elem |-> <<>>, block_h |-> 0, total_block_h |-> 0]
    ELSE
      LET prev      == place_rows_flat(n - 1, sz, rows, centered)
          i         == n - 1
          clip_i    == sz[n]
          bg_i      == _bg(clip_i)
          current_y == POS_Y
          y_i       == IF i = 0 THEN current_y
                       ELSE current_y + _bg(sz[1]).h + LINE_GAPS(rows)[i]
      IN  [elem |-> prev.elem \o
                <<[kind |-> "bg", row |-> i, x |-> posf(bg_i.w, centered),
                   y |-> y_i - PAD_Y, w |-> bg_i.w, h |-> bg_i.h],
                  [kind |-> "txt", row |-> i, x |-> posf(clip_i.w, centered),
                   y |-> y_i, w |-> clip_i.w, h |-> clip_i.h]>>,
           block_h |-> bg_i.h,
           total_block_h |-> (y_i + bg_i.h + PAD_Y) - POS_Y]

\* the loop over the rows of one item, after n rows have been placed:
\* elem, block_h and total_block_h
RECURSIVE place_rows(_, _, _, _)
place_rows(n, sz, rows, centered) ==
    IF n = 0 THEN [elem |-> <<>>, block_h |-> 0, total_block_h |-> 0]
    ELSE
      LET prev      == place_rows(n - 1, sz, rows, centered)
          i         == n - 1
          clip_i    == sz[n]
          bg_i      == _bg(clip_i)
          current_y == POS_Y
          y_i       == IF i = 0 THEN current_y
                       ELSE current_y + prev.block_h + LINE_GAPS(rows)[i]
          block_h   == IF i = 0 THEN bg_i.h ELSE (y_i - current_y) + bg_i.h
      IN  [elem |-> prev.elem \o
                <<[kind |-> "bg", row |-> i, x |-> posf(bg_i.w, centered),
                   y |-> y_i - PAD_Y, w |-> bg_i.w, h |-> bg_i.h],
                  [kind |-> "txt", row |-> i, x |-> posf(clip_i.w, centered),
                   y |-> y_i, w |-> clip_i.w, h |-> clip_i.h]>>,
           block_h |-> block_h,
           \* (elem[-1].pos(0)[1] + bg_i.h + PAD_Y) - POS_Y
           total_block_h |-> (y_i + bg_i.h + PAD_Y) - POS_Y]

\* variant: the bottom margin is left out of the overflow
overflow_of_no_margin(total_block_h) == POS_Y + total_block_h - SCREEN_H

\* overflow = POS_Y + total_block_h + BOTTOM_MARGIN - SCREEN_H
overflow_of(total_block_h) == POS_Y + total_block_h + BOTTOM_MARGIN - SCREEN_H

\* variant: only the elements that themselves cross the safe line are moved
shift_elem_per_row(c, overflow) ==
    IF c.y + c.h > SCREEN_H - BOTTOM_MARGIN THEN [c EXCEPT !.y = @ - overflow] ELSE c

\* c.with_position((c.pos(0)[0], c.pos(0)[1] - overflow))
shift_elem(c, overflow) == [c EXCEPT !.y = @ - overflow]

correct_overflow(elem, overflow) ==
    IF overflow > 0 THEN [j \in DOMAIN elem |-> shift_elem(elem[j], overflow)]
    ELSE elem

\* variant: the duration is snapped down to whole video frames
segment_duration_frames(item) == (((item.dur * VIDEO_FPS) \div 1000) * 1000) \div VIDEO_FPS

\* .with_duration(dur)
segment_duration(item) == item.dur

\* fsize_top or FONT_SIZE_TOP: an argument left out (None, here 0) gives the constant
FONT_SIZES(par) ==
    <<IF par.fsize_top = 0 THEN FONT_SIZE_TOP ELSE par.fsize_top,
      IF par.fsize_furi = 0 THEN FONT_SIZE_FURI ELSE par.fsize_furi,
      IF par.fsize_bot = 0 THEN FONT_SIZE_BOT ELSE par.fsize_bot>>
CJK_WIDTHS == <<CJK_WIDTH_TOP, CJK_WIDTH_FURI, CJK_WIDTH_BOT>>

\* the characters of the speaker name
speaker_chars(speaker) ==
    IF speaker = "N" THEN <<"N">> ELSE <<"A", "l", "i", "c", "e">>

\* _make_block_plain with add_trailing_space: the text and the font handed
\* to TextClip
_make_block_plain(font_pick_text, font_size, cjk_width) ==
    LET body_wrapped == _prep_line(font_pick_text, font_size, cjk_width)
    IN  [body      |-> body_wrapped,
         text      |-> body_wrapped \o <<NL, " ">>,
         font      |-> pick_font(body_wrapped),
         font_size |-> font_size,
         cjk_width |-> cjk_width]

\* the text clip of row i (counted from 0) of one item
row_clip(i, text, speaker, par) ==
    LET text_i == or_empty(text)
    IN  IF i = 0
        THEN LET body0_wrapped == _prep_line(text_i, FONT_SIZES(par)[1], CJK_WIDTH_TOP)
             IN  [body      |-> body0_wrapped,
                  text      |-> IF speaker = "N" /\ par.hide_n_label
                                THEN body0_wrapped
                                ELSE speaker_chars(speaker) \o <<":", " ">>
                                        \o body0_wrapped,
                  font      |-> pick_font(body0_wrapped),
                  font_size |-> FONT_SIZES(par)[1],
                  cjk_width |-> CJK_WIDTH_TOP]
        ELSE _make_block_plain(text_i, FONT_SIZES(par)[i + 1], CJK_WIDTHS[i + 1])

\* variant: the list of elements is carried over from the previous item
start_elem_keep(prev) == prev

\* elem = [] at the head of the loop body, whatever the previous item left
start_elem(prev) == <<>>

\* the body of the loop over lines: one composed segment
compose_item(prev, item, txt, sz, rows, par, center) ==
    LET is_n   == item.spk = "N"
        placed == place_rows(rows, sz, rows, is_n /\ center)
        elem   == start_elem(prev) \o placed.elem
    IN  [duration |-> segment_duration(item),
         rows     |-> item.rows,
         texts    |-> [r \in 1..rows |-> row_clip(r - 1, txt[r], item.spk, par)],
         \* elem as the row loop leaves it, before the overflow correction
         placed   |-> elem,
         elem     |-> correct_overflow(elem, overflow_of(placed.total_block_h))]

\* concatenate_videoclips(clips, method="compose")
concatenate_videoclips(cl) ==
    [duration |-> SumSeq([i \in DOMAIN cl |-> cl[i].duration]),
     segs     |-> [i \in DOMAIN cl |-> cl[i].duration]]


\* ----------------------------------------------------- the texts of a row
\* an argument of build_video that is left out
DefaultParams ==
    [fsize_top |-> 0, fsize_furi |-> 0, fsize_bot |-> 0, hide_n_label |-> TRUE]

\* a short Latin text
PlainText == <<"a", "b">>

Rep(c, n) == [j \in 1..n |-> c]

\* the Latin row of Scenario 2
Scenario2Token ==
    <<"i", "n", "t", "e", "r", "n", "a", "t", "i", "o", "n", "a", "l",
      "i", "z", "a", "t", "i", "o", "n", "-", "r", "e", "a", "d", "i", "n",
      "e", "s", "s", "-", "c", "h", "e", "c", "k", "l", "i", "s", "t">>

\* the heads the tails are appended to: nothing, a Latin word short of the
\* least column budget, two Latin words that do not fit one line, kana short
\* of the width of row 0 and of the widest row, kanji that fill a line
\* of row 0
RowTexts ==
    LET Tails == UNION {[1..m -> {"a", "-", " ", "KANA", "HANGUL"}] : m \in 0..MaxTailLen}
        Heads == {<<>>,
                  Rep("a", 6),
                  Rep("a", 4) \o <<" ">> \o Rep("a", 7),
                  Rep("KANA", CJK_WIDTH_TOP - 1),
                  Rep("KANA", CJK_WIDTH_FURI - 1),
                  Rep("KANJI", CJK_WIDTH_TOP) \o <<" ">>}
    IN  {h \o t : h \in Heads, t \in Tails}
            \cup {None, <<" ", " ">>, Scenario2Token, Rep("HWKANA", CJK_WIDTH_TOP + 1)}

\* the arguments of the calls: speaker, label flag, font sizes
\* (180 gives a column budget of 8, 120 one of 12)
WrapCalls ==
    {[spk |-> "N", par |-> DefaultParams],
     [spk |-> "Alice", par |-> DefaultParams],
     [spk |-> "N", par |-> [fsize_top |-> 180, fsize_furi |-> 180,
                            fsize_bot |-> 180, hide_n_label |-> FALSE]],
     [spk |-> "N", par |-> [fsize_top |-> 120, fsize_furi |-> 120,
                            fsize_bot |-> 120, hide_n_label |-> TRUE]]}


\* ================================================================= actions
\* state at the start of run_one's hook section: the dialogue is built,
\* nothing is synthesized yet
Init ==
    /\ pc = "hook"
    /\ cfg \in Configs
    /\ \E w \in 1..MaxWords : valid_dialogue = Dialogue(w)
    /\ hook_offset = 0
    /\ subs \in 1..3
    /\ audio_parts = <<>>
    /\ sub_rows = [r \in 1..subs |-> <<>>]
    /\ combined = <<>>
    /\ durs = <<>>
    /\ full_ms = 0
    /\ lines_data = <<>>
    /\ monologue_center = FALSE
    /\ measure = [i \in 1..MaxItems |-> [r \in 1..subs |-> SmallSize]]
    /\ clips = <<>>
    /\ video = NoVideo
    /\ row_str = [i \in 1..MaxItems |-> [r \in 1..subs |-> PlainText]]
    /\ params = DefaultParams
    /\ example_ctx = <<>>
    /\ NoUpload
    /\ NoHookCall
    /\ NoRunAll

\* run_one: generate_hook returned a text, inserted at the head
HookInsert ==
    /\ pc = "hook"
    /\ valid_dialogue' = <<HookLine>> \o valid_dialogue
    /\ hook_offset' = 1
    /\ pc' = "tts"
    /\ UNCHANGED <<row_str, params, example_ctx>>
    /\ UNCHANGED <<uploadVars, hookVars, runAllVars>>
    /\ UNCHANGED <<cfg, subs, audio_parts, sub_rows, combined, durs, full_ms,
                   lines_data, monologue_center, measure, clips, video>>

\* run_one: HOOK_ENABLE off, generate_hook raised or returned nothing
HookNone ==
    /\ pc = "hook"
    /\ pc' = "tts"
    /\ UNCHANGED <<row_str, params, example_ctx>>
    /\ UNCHANGED <<uploadVars, hookVars, runAllVars>>
    /\ UNCHANGED <<cfg, valid_dialogue, hook_offset, subs, audio_parts, sub_rows,
                   combined, durs, full_ms, lines_data, monologue_center, measure,
                   clips, video>>

\* one iteration of the TTS & subtitle loop: speak() writes the clip file
\* (clip = decoded frame count, or Missing when the file does not decode),
\* then one subtitle text per row is appended
Speak ==
    /\ pc = "tts"
    /\ Len(audio_parts) < Len(valid_dialogue)
    /\ LET i    == Len(audio_parts) + 1
           line == valid_dialogue[i]
       IN  /\ \E clip \in {clip_file(f) : f \in ClipChoices(cfg, i)} \cup {Missing} :
                 /\ clip = Missing =>
                       Cardinality({j \in DOMAIN audio_parts : audio_parts[j] = Missing})
                           < MaxMissing
                 /\ audio_parts' = Append(audio_parts, clip)
           /\ sub_rows' = [r \in 1..subs |-> Append(sub_rows[r], sub_text(line, r))]
           /\ example_ctx' = Append(example_ctx,
                                    word_context(valid_dialogue, i, hook_offset, subs))
           /\ pc' = IF i = Len(valid_dialogue) THEN "concat" ELSE "tts"
    /\ UNCHANGED <<row_str, params>>
    /\ UNCHANGED <<uploadVars, hookVars, runAllVars>>
    /\ UNCHANGED <<cfg, valid_dialogue, hook_offset, subs, combined, durs, full_ms,
                   lines_data, monologue_center, measure, clips, video>>

\* speak() has no handler around the synthesis request: its exception ends run_one
SpeakRaise ==
    /\ pc = "tts"
    /\ Len(audio_parts) < Len(valid_dialogue)
    /\ pc' = "failed"
    /\ UNCHANGED <<row_str, params, example_ctx>>
    /\ UNCHANGED <<uploadVars, hookVars, runAllVars>>
    /\ UNCHANGED <<cfg, valid_dialogue, hook_offset, subs, audio_parts, sub_rows,
                   combined, durs, full_ms, lines_data, monologue_center, measure,
                   clips, video>>

\* _concat_with_gaps: one iteration of the loop over audio_paths
ConcatStep ==
    /\ pc = "concat"
    /\ Len(durs) < Len(audio_parts)
    /\ audio_parts[Len(durs) + 1] # Missing
    /\ LET idx == Len(durs)
           it  == concat_iter(idx, Len(audio_parts), audio_parts[idx + 1].frames, cfg)
       IN  /\ combined' = combined \o it.pieces
           /\ durs' = Append(durs, it.dur)
    /\ UNCHANGED <<row_str, params, example_ctx>>
    /\ UNCHANGED <<uploadVars, hookVars, runAllVars>>
    /\ UNCHANGED <<pc, cfg, valid_dialogue, hook_offset, subs, audio_parts, sub_rows,
                   full_ms, lines_data, monologue_center, measure, clips, video>>

\* _concat_with_gaps: AudioSegment.from_file raises on a file that is missing
\* or does not decode; nothing catches it
ConcatRaise ==
    /\ pc = "concat"
    /\ Len(durs) < Len(audio_parts)
    /\ audio_parts[Len(durs) + 1] = Missing
    /\ pc' = "failed"
    /\ UNCHANGED <<row_str, params, example_ctx>>
    /\ UNCHANGED <<uploadVars, hookVars, runAllVars>>
    /\ UNCHANGED <<cfg, valid_dialogue, hook_offset, subs, audio_parts, sub_rows,
                   combined, durs, full_ms, lines_data, monologue_center, measure,
                   clips, video>>

\* _concat_with_gaps: export full_raw.wav and return durs
ConcatReturn ==
    /\ pc = "concat"
    /\ Len(durs) = Len(audio_parts)
    /\ full_ms' = track_ms(combined, cfg.rate)
    /\ pc' = "enhance"
    /\ UNCHANGED <<row_str, params, example_ctx>>
    /\ UNCHANGED <<uploadVars, hookVars, runAllVars>>
    /\ UNCHANGED <<cfg, valid_dialogue, hook_offset, subs, audio_parts, sub_rows,
                   combined, durs, lines_data, monologue_center, measure, clips, video>>

\* enhance(full_raw.wav, full.wav) and the mp3 export: an external step that
\* may change the length of the file
Enhance ==
    /\ pc = "enhance"
    /\ \E d \in {0 - MaxDriftMs, 0, MaxDriftMs} : full_ms' = Max2(0, full_ms + d)
    /\ pc' = "lines"
    /\ UNCHANGED <<row_str, params, example_ctx>>
    /\ UNCHANGED <<uploadVars, hookVars, runAllVars>>
    /\ UNCHANGED <<cfg, valid_dialogue, hook_offset, subs, audio_parts, sub_rows,
                   combined, durs, lines_data, monologue_center, measure, clips, video>>

\* run_one: build the rows of lines.json
BuildLines ==
    /\ pc = "lines"
    /\ lines_data' = build_lines_data(valid_dialogue, durs, sub_rows, subs)
    /\ pc' = "video"
    /\ UNCHANGED <<row_str, params, example_ctx>>
    /\ UNCHANGED <<uploadVars, hookVars, runAllVars>>
    /\ UNCHANGED <<cfg, valid_dialogue, hook_offset, subs, audio_parts, sub_rows,
                   combined, durs, full_ms, monologue_center, measure, clips, video>>

\* build_video: one iteration of the loop over lines
BuildVideoItem ==
    /\ pc = "video"
    /\ Len(clips) < Len(lines_data)
    /\ LET k == Len(clips) + 1
           prev == IF k = 1 THEN <<>> ELSE clips[k - 1].elem
       IN  clips' = Append(clips,
                       compose_item(prev, lines_data[k], row_str[k], measure[k],
                                    subs, params, monologue_center))
    /\ UNCHANGED <<row_str, params, example_ctx>>
    /\ UNCHANGED <<uploadVars, hookVars, runAllVars>>
    /\ UNCHANGED <<pc, cfg, valid_dialogue, hook_offset, subs, audio_parts, sub_rows,
                   combined, durs, full_ms, lines_data, monologue_center, measure,
                   video>>

\* build_video: concatenate the segments, attach the audio file, write the file
WriteVideo ==
    /\ pc = "video"
    /\ Len(clips) = Len(lines_data)
    /\ video' = [written  |-> TRUE,
                 duration |-> concatenate_videoclips(clips).duration,
                 segs     |-> concatenate_videoclips(clips).segs,
                 audio_ms |-> full_ms]
    /\ pc' = "done"
    /\ UNCHANGED <<row_str, params, example_ctx>>
    /\ UNCHANGED <<uploadVars, hookVars, runAllVars>>
    /\ UNCHANGED <<cfg, valid_dialogue, hook_offset, subs, audio_parts, sub_rows,
                   combined, durs, full_ms, lines_data, monologue_center, measure,
                   clips>>

Next ==
    \/ HookInsert \/ HookNone \/ Speak \/ SpeakRaise
    \/ ConcatStep \/ ConcatRaise \/ ConcatReturn
    \/ Enhance \/ BuildLines \/ BuildVideoItem \/ WriteVideo

Spec == Init /\ [][Next]_vars

\* ---------------------------------------------------------------------------
\* build_video called on its own: any rectangular list of lines, any rendered
\* row sizes, any audio file
video_item(i, nrows, d, speaker) ==
    [spk  |-> speaker,
     rows |-> [r \in 1..nrows |-> sub_text([word |-> i, role |-> 2], r)],
     dur  |-> d]

InitVideo ==
    /\ pc = "video"
    /\ cfg = Scenario1Config
    /\ valid_dialogue = <<>>
    /\ hook_offset = 0
    /\ subs \in 1..3
    /\ audio_parts = <<>>
    /\ sub_rows = [r \in 1..subs |-> <<>>]
    /\ combined = <<>>
    /\ durs = <<>>
    /\ monologue_center \in BOOLEAN
    /\ \E n \in 1..2, speaker \in {"N", "Alice"} :
          /\ \E ds \in [1..n -> {1000, 1120}] :
                /\ lines_data = [i \in 1..n |-> video_item(i, subs, ds[i], speaker)]
                /\ full_ms \in {SumSeq(ds), SumSeq(ds) + MaxDriftMs}
          /\ \E sz \in [1..subs -> Sizes] :
                measure \in {[i \in 1..MaxItems |-> sz],
                             [i \in 1..MaxItems |->
                                 IF i = 1 THEN sz ELSE [r \in 1..subs |-> SmallSize]]}
    /\ clips = <<>>
    /\ video = NoVideo
    /\ row_str = [i \in 1..MaxItems |-> [r \in 1..subs |-> PlainText]]
    /\ params = DefaultParams
    /\ example_ctx = <<>>
    /\ NoUpload
    /\ NoHookCall
    /\ NoRunAll

NextVideo == BuildVideoItem \/ WriteVideo

SpecVideo == InitVideo /\ [][NextVideo]_vars


\* ---------------------------------------------------------------------------
\* build_video called on one line whose rows are all missing or empty but
\* one, which holds any of the row texts
InitWrap ==
    /\ pc = "video"
    /\ cfg = Scenario1Config
    /\ valid_dialogue = <<>>
    /\ hook_offset = 0
    /\ subs \in 1..3
    /\ audio_parts = <<>>
    /\ sub_rows = [r \in 1..subs |-> <<>>]
    /\ combined = <<>>
    /\ durs = <<>>
    /\ monologue_center = FALSE
    /\ full_ms = 1000
    /\ measure = [i \in 1..MaxItems |-> [r \in 1..subs |-> SmallSize]]
    /\ \E call \in WrapCalls, j \in 1..subs, t \in RowTexts :
          /\ lines_data = <<video_item(1, subs, 1000, call.spk)>>
          /\ params = call.par
          /\ row_str = [i \in 1..MaxItems |->
                           [r \in 1..subs |->
                               IF r = j THEN t ELSE IF r < j THEN None ELSE <<>>]]
    /\ clips = <<>>
    /\ video = NoVideo
    /\ example_ctx = <<>>
    /\ NoUpload
    /\ NoHookCall
    /\ NoRunAll

SpecWrap == InitWrap /\ [][NextVideo]_vars


\* =========================================================== upload_youtube.py
\* An exception of request.next_chunk(): an HttpError with its status and
\* what its text holds (quota: "quota", "uploadlimitexceeded" or
\* "ratelimitexceeded"; backend: "backendError"), or another exception.
HttpErrors ==
    [type : {"HttpError"}, status : {403, 503}, quota : BOOLEAN,
     backend : BOOLEAN]

\* raise RuntimeError(...) from e
RuntimeError(e) == [e EXCEPT !.type = "RuntimeError"]

\* ("quota" in s) or ("uploadlimitexceeded" in s) or ("ratelimitexceeded" in s)
_is_quota_or_limit(e) == e.quota

\* variant: the last allowed attempt is retried as well
retry_http_le(n, e) == n <= max_attempts /\ (e.status >= 500 \/ e.backend)

\* attempt < retry.max_attempts and (e.resp.status >= 500 or "backendError" in str(e))
retry_http(n, e) == n < max_attempts /\ (e.status >= 500 \/ e.backend)

\* attempt < retry.max_attempts
retry_other(n) == n < max_attempts

\* sleep = retry.base_sleep * (2 ** (attempt - 1))
backoff(n) == base_sleep * (2 ^ (n - 1))

\* the chunk offset next_chunk sends from: after an error it first asks the
\* server how much of the file arrived, which is any part of what was sent
ResumeFrom == IF media.in_error THEN 0..media.sent ELSE {media.sent}

InLoop == media.chunks > 0 /\ response = NoResponse /\ raised = NoError

\* status, response = request.next_chunk(): a chunk was taken (308), the
\* upload is not complete and the loop goes on
NextChunkProgress ==
    /\ InLoop
    /\ \E r \in ResumeFrom :
          /\ r + 1 < media.chunks
          /\ media' = [media EXCEPT !.sent = r + 1, !.in_error = FALSE]
    /\ calls' = Append(calls, NoError)
    /\ UNCHANGED <<attempt, response, sleeps, raised>>
    /\ UNCHANGED <<pipelineVars, hookVars, runAllVars>>

\* status, response = request.next_chunk(): the last chunk was taken and
\* the response is returned
NextChunkResponse ==
    /\ InLoop
    /\ \E r \in ResumeFrom :
          /\ r + 1 >= media.chunks
          /\ media' = [media EXCEPT !.sent = media.chunks, !.in_error = FALSE]
    /\ response' = "video"
    /\ calls' = Append(calls, NoError)
    /\ UNCHANGED <<attempt, sleeps, raised>>
    /\ UNCHANGED <<pipelineVars, hookVars, runAllVars>>

\* except HttpError as e
NextChunkHttpError ==
    /\ InLoop
    /\ \E e \in HttpErrors :
          /\ attempt' = attempt + 1
          /\ calls' = Append(calls, e)
          /\ media' = [media EXCEPT !.in_error = TRUE]
          /\ IF _is_quota_or_limit(e)
                THEN raised' = RuntimeError(e) /\ UNCHANGED sleeps
             ELSE IF retry_http(attempt + 1, e)
                THEN sleeps' = Append(sleeps, backoff(attempt + 1)) /\ UNCHANGED raised
             ELSE raised' = e /\ UNCHANGED sleeps
    /\ UNCHANGED response
    /\ UNCHANGED <<pipelineVars, hookVars, runAllVars>>

\* except Exception as e
NextChunkException ==
    /\ InLoop
    /\ \E e \in {[type |-> "Exception", status |-> 0, quota |-> FALSE, backend |-> FALSE]} :
          /\ attempt' = attempt + 1
          /\ calls' = Append(calls, e)
          /\ media' = [media EXCEPT !.in_error = TRUE]
          /\ IF retry_other(attempt + 1)
                THEN sleeps' = Append(sleeps, backoff(attempt + 1)) /\ UNCHANGED raised
             ELSE raised' = e /\ UNCHANGED sleeps
    /\ UNCHANGED response
    /\ UNCHANGED <<pipelineVars, hookVars, runAllVars>>

\* _resumable_insert is entered: attempt = 0, response = None, and a file
\* of one or more chunks
InitUpload ==
    /\ PipelineIdle
    /\ NoHookCall
    /\ NoRunAll
    /\ attempt = 0
    /\ response = NoResponse
    /\ \E n \in 1..MaxChunks : media = [chunks |-> n, sent |-> 0, in_error |-> FALSE]
    /\ calls = <<>>
    /\ sleeps = <<>>
    /\ raised = NoError

NextUpload ==
    NextChunkProgress \/ NextChunkResponse \/ NextChunkHttpError \/ NextChunkException

\* the loop is sequential code: an iteration that can run does run
LiveSpecUpload == InitUpload /\ [][NextUpload]_vars /\ WF_vars(NextUpload)


\* ===================================================================== hook.py
\* HOOKS[lang][category]: the templates, character by character; {mini} and
\* {scene} are the placeholders of str.format
HOOKS ==
    [en |->
        [shock_req |-> <<
            <<"T", "h", "i", "s", " ", "s", "o", "u", "n", "d", "s", " ", "r", "u", "d",
              "e", " ", "a", "t", " ", "{scene}", ".">>,
            <<"N", "e", "v", "e", "r", " ", "s", "a", "y", " ", "t", "h", "i", "s", " ",
              "a", "t", " ", "{scene}", ".">>
         >>,
         empathy_req |-> <<
            <<"F", "r", "e", "e", "z", "e", " ", "u", "p", " ", "a", "t", " ", "{scene}",
              "?">>,
            <<"S", "a", "i", "d", " ", "i", "t", " ", "a", "n", "d", " ", "g", "o", "t",
              " ", "w", "e", "i", "r", "d", " ", "l", "o", "o", "k", "s", "?">>
         >>,
         time_req |-> <<
            <<"3", "0", " ", "s", "e", "c", "o", "n", "d", "s", ".", " ", "F", "i", "x",
              " ", "y", "o", "u", "r", " ", "{mini}", ".">>,
            <<"H", "a", "l", "f", " ", "a", " ", "m", "i", "n", "u", "t", "e", " ", "t",
              "o", " ", "n", "a", "i", "l", " ", "{scene}", ".">>
         >>,
         release_req |-> <<
            <<"S", "t", "o", "p", " ", "s", "a", "y", "i", "n", "g", " ", "t", "h", "i",
              "s", ".", " ", "S", "a", "y", " ", "t", "h", "i", "s", " ", "i", "n", "s",
              "t", "e", "a", "d", ".">>,
            <<"T", "i", "r", "e", "d", " ", "o", "f", " ", "g", "e", "t", "t", "i", "n",
              "g", " ", "i", "t", " ", "w", "r", "o", "n", "g", "?", " ", "U", "s", "e",
              " ", "t", "h", "i", "s", ".">>
         >>,
         status_req |-> <<
            <<"S", "a", "y", " ", "t", "h", "i", "s", " ", "t", "o", " ", "s", "o", "u",
              "n", "d", " ", "n", "a", "t", "u", "r", "a", "l", ".">>,
            <<"O", "n", "e", " ", "l", "i", "n", "e", " ", "t", "o", " ", "s", "o", "u",
              "n", "d", " ", "c", "o", "n", "f", "i", "d", "e", "n", "t", " ", "a", "t",
              " ", "{scene}", ".">>
         >>,
         confirm_req |-> <<
            <<"N", "o", "t", " ", "s", "u", "r", "e", " ", "w", "h", "a", "t", " ", "t",
              "o", " ", "s", "a", "y", " ", "a", "t", " ", "{scene}", "?", " ", "U", "s",
              "e", " ", "t", "h", "i", "s", ".">>
         >>,
         direc_req |-> <<
            <<"L", "o", "s", "t", " ", "a", "t", " ", "{scene}", "?", " ", "A", "s", "k",
              " ", "l", "i", "k", "e", " ", "t", "h", "i", "s", ".">>
         >>,
         status_res |-> <<
            <<"G", "r", "e", "e", "t", " ", "a", "n", "d", " ", "g", "u", "i", "d", "e",
              " ", "s", "m", "o", "o", "t", "h", "l", "y", " ", "a", "t", " ", "{scene}",
              ".">>,
            <<"S", "o", "u", "n", "d", " ", "h", "e", "l", "p", "f", "u", "l", " ", "i",
              "n", " ", "o", "n", "e", " ", "l", "i", "n", "e", ".">>
         >>,
         time_res |-> <<
            <<"3", "0", " ", "s", "e", "c", "o", "n", "d", "s", " ", "t", "o", " ", "u",
              "p", "g", "r", "a", "d", "e", " ", "y", "o", "u", "r", " ", "g", "r", "e",
              "e", "t", "i", "n", "g", ".">>,
            <<"H", "a", "l", "f", " ", "a", " ", "m", "i", "n", "u", "t", "e", " ", "t",
              "o", " ", "g", "u", "i", "d", "e", " ", "n", "a", "t", "u", "r", "a", "l",
              "l", "y", ".">>
         >>,
         release_res |-> <<
            <<"D", "r", "o", "p", " ", "t", "h", "e", " ", "s", "t", "i", "f", "f", " ",
              "p", "h", "r", "a", "s", "i", "n", "g", ".", " ", "T", "r", "y", " ", "t",
              "h", "i", "s", " ", "o", "n", "e", ".">>,
            <<"M", "a", "k", "e", " ", "i", "t", " ", "c", "l", "e", "a", "r", " ", "a",
              "n", "d", " ", "f", "r", "i", "e", "n", "d", "l", "y", ".">>
         >>],
     ja |->
        [shock_req |-> <<
            <<"{scene}", "KANA", "KANA", "KANA", "KANJI", "KANA", "KANJI", "KANA", "KANJI",
              "KANA", "KANA", "KANA", "KANA", "KANA", "IDEO_STOP">>,
            <<"{scene}", "KANA", "KANA", "KANA", "KANA", "KANJI", "KANA", "KANJI", "KANJI",
              "KANJI", "KANA", "KANA", "IDEO_STOP">>
         >>,
         empathy_req |-> <<
            <<"{scene}", "KANA", "KANJI", "KANA", "KANA", "KANA", "KANA", "KANA",
              "IDEO_COMMA", "KANA", "KANA", "FW_QUESTION">>,
            <<"KANA", "KANA", "KANJI", "KANA", "KANA", "KANJI", "KANA", "KANJI", "KANA",
              "KANA", "KANA", "KANA", "KANA", "KANA", "KANA", "FW_QUESTION">>
         >>,
         time_req |-> <<
            <<"3", "0", "KANJI", "KANA", "{mini}", "KANA", "KANJI", "KANA", "KANA",
              "IDEO_STOP">>,
            <<"3", "0", "KANJI", "KANA", "{scene}", "KANA", "KANJI", "KANA", "KANJI",
              "KANA", "KANJI", "KANA", "KANA", "IDEO_STOP">>
         >>,
         release_req |-> <<
            <<"KANJI", "KANJI", "KANJI", "KANA", "KANA", "KANA", "KANA", "KANA", "KANA",
              "KANA", "KANA", "KANA", "FW_QUESTION", " ", "KANA", "KANA", "KANA", "KANJI",
              "KANA", "KANA", "KANA", "IDEO_STOP">>,
            <<"{mini}", "KANA", "IDEO_COMMA", "KANA", "KANA", "KANJI", "KANJI", "KANA",
              "KANJI", "KANA", "KANA", "IDEO_STOP">>
         >>,
         status_req |-> <<
            <<"KANA", "KANA", "KANJI", "KANA", "KANA", "KANJI", "KANJI", "KANA", "KANA",
              "KANA", "KANA", "KANA", "IDEO_STOP">>,
            <<"{scene}", "KANA", "KANJI", "KANJI", "KANA", "KANJI", "KANA", "KANA", "KANJI",
              "KANJI", "IDEO_STOP">>
         >>,
         confirm_req |-> <<
            <<"{scene}", "KANA", "KANJI", "KANA", "FW_QUESTION", " ", "KANA", "KANA",
              "KANA", "KANA", "KANA", "KANA", "KANA", "IDEO_STOP">>
         >>,
         direc_req |-> <<
            <<"KANJI", "KANA", "KANJI", "KANA", "KANA", "KANA", "KANJI", "KANJI", "KANJI",
              "IDEO_STOP", "KANA", "KANA", "KANJI", "KANA", "KANA", "O", "K", "IDEO_STOP">>
         >>,
         status_res |-> <<
            <<"{scene}", "KANA", "KANJI", "KANA", "KANA", "KANA", "KANJI", "KANJI", "KANA",
              "KANA", "KANJI", "KANJI", "IDEO_STOP">>,
            <<"KANJI", "KANJI", "KANA", "KANJI", "KANJI", "KANA", "KANA", "KANA", "KANJI",
              "KANA", "KANJI", "IDEO_STOP">>
         >>,
         time_res |-> <<
            <<"3", "0", "KANJI", "KANA", "KANJI", "KANJI", "KANA", "KANJI", "KANJI",
              "KANJI", "KANA", "KANJI", "KANA", "KANA", "IDEO_STOP">>,
            <<"KANJI", "KANJI", "KANA", "KANJI", "KANJI", "KANA", "KANJI", "KANJI", "KANA",
              "KANJI", "KANA", "KANA", "IDEO_STOP">>
         >>,
         release_res |-> <<
            <<"KANJI", "KANA", "KANJI", "KANA", "KANJI", "KANA", "KANJI", "KANJI",
              "IDEO_STOP", "KANA", "KANA", "KANJI", "KANA", "KANA", "KANA", "KANA", "KANA",
              "KANA", "IDEO_STOP">>,
            <<"KANJI", "KANA", "KANA", "KANA", "KANA", "KANA", "KANJI", "KANA", "KANA",
              "KANA", "IDEO_COMMA", "KANA", "KANA", "KANA", "KANA", "IDEO_STOP">>
         >>],
     ko |->
        [shock_req |-> <<
            <<"{scene}", "HANGUL", "HANGUL", " ", "HANGUL", " ", "HANGUL", "HANGUL", " ",
              "HANGUL", " ", "HANGUL", " ", "HANGUL", "HANGUL", "HANGUL", ".">>,
            <<"{scene}", "HANGUL", "HANGUL", "HANGUL", " ", "HANGUL", "HANGUL", " ",
              "HANGUL", "HANGUL", "HANGUL", "HANGUL", ".">>
         >>,
         empathy_req |-> <<
            <<"{scene}", "HANGUL", "HANGUL", " ", "HANGUL", "HANGUL", " ", "HANGUL",
              "HANGUL", " ", "HANGUL", " ", "HANGUL", "HANGUL", "?">>,
            <<"HANGUL", "HANGUL", "HANGUL", " ", "HANGUL", "HANGUL", "HANGUL", " ",
              "HANGUL", "HANGUL", "HANGUL", "HANGUL", " ", "HANGUL", " ", "HANGUL",
              "HANGUL", "HANGUL", "?">>
         >>,
         time_req |-> <<
            <<"3", "0", "HANGUL", "HANGUL", " ", "{mini}", " ", "HANGUL", "HANGUL", " ",
              "HANGUL", ".">>,
            <<"3", "0", "HANGUL", "HANGUL", " ", "{scene}", " ", "HANGUL", "HANGUL",
              "HANGUL", " ", "HANGUL", "HANGUL", "HANGUL", ".">>
         >>,
         release_req |-> <<
            <<"HANGUL", "HANGUL", " ", "HANGUL", "HANGUL", " ", "HANGUL", "HANGUL", "?",
              " ", "HANGUL", " ", "HANGUL", "HANGUL", "HANGUL", "HANGUL", " ", "HANGUL",
              "HANGUL", "HANGUL", ".">>,
            <<"{mini}", ",", " ", "HANGUL", " ", "HANGUL", "HANGUL", "HANGUL", "HANGUL",
              " ", "HANGUL", "HANGUL", "HANGUL", ".">>
         >>,
         status_req |-> <<
            <<"HANGUL", "HANGUL", "HANGUL", " ", "HANGUL", "HANGUL", "HANGUL", " ",
              "HANGUL", "HANGUL", "HANGUL", "HANGUL", "HANGUL", " ", "HANGUL", "HANGUL",
              "HANGUL", ".">>,
            <<"{scene}", "HANGUL", "HANGUL", " ", "HANGUL", "HANGUL", " ", "HANGUL",
              "HANGUL", " ", "HANGUL", "HANGUL", "HANGUL", " ", "HANGUL", "HANGUL",
              "HANGUL", ".">>
         >>,
         confirm_req |-> <<
            <<"{scene}", "HANGUL", "HANGUL", " ", "HANGUL", "HANGUL", "HANGUL", "HANGUL",
              "HANGUL", ",", " ", "HANGUL", "HANGUL", "HANGUL", " ", "HANGUL", "HANGUL",
              "HANGUL", "HANGUL", "HANGUL", ".">>
         >>,
         direc_req |-> <<
            <<"HANGUL", "HANGUL", " ", "HANGUL", "HANGUL", "HANGUL", " ", "HANGUL",
              "HANGUL", "HANGUL", "HANGUL", ".", " ", "HANGUL", "HANGUL", "HANGUL", " ",
              "HANGUL", "HANGUL", "HANGUL", "HANGUL", " ", "HANGUL", "HANGUL", ".">>
         >>,
         status_res |-> <<
            <<"{scene}", "HANGUL", "HANGUL", " ", "HANGUL", "HANGUL", "HANGUL", "HANGUL",
              " ", "HANGUL", "HANGUL", "HANGUL", "HANGUL", " ", "HANGUL", "HANGUL",
              "HANGUL", ".">>,
            <<"HANGUL", "HANGUL", "HANGUL", "HANGUL", " ", "HANGUL", "HANGUL", "HANGUL",
              "HANGUL", "HANGUL", " ", "HANGUL", "HANGUL", "HANGUL", " ", "HANGUL",
              "HANGUL", ".">>
         >>,
         time_res |-> <<
            <<"3", "0", "HANGUL", "HANGUL", " ", "HANGUL", "HANGUL", "HANGUL", "HANGUL",
              " ", "HANGUL", "HANGUL", "HANGUL", "HANGUL", "HANGUL", ".">>,
            <<"HANGUL", " ", "HANGUL", "HANGUL", "HANGUL", " ", "HANGUL", "HANGUL",
              "HANGUL", "HANGUL", "HANGUL", " ", "HANGUL", "HANGUL", ".">>
         >>,
         release_res |-> <<
            <<"HANGUL", "HANGUL", "HANGUL", " ", "HANGUL", "HANGUL", "HANGUL", " ",
              "HANGUL", "HANGUL", ".", " ", "HANGUL", "HANGUL", "HANGUL", " ", "HANGUL",
              "HANGUL", "HANGUL", ".">>,
            <<"HANGUL", "HANGUL", " ", "HANGUL", "HANGUL", "HANGUL", " ", "HANGUL",
              "HANGUL", ",", " ", "HANGUL", " ", "HANGUL", "HANGUL", "HANGUL", "HANGUL",
              " ", "HANGUL", "HANGUL", "HANGUL", "HANGUL", ".">>
         >>],
     pt |->
        [shock_req |-> <<
            <<"I", "s", "s", "o", " ", "s", "o", "a", " ", "r", "u", "d", "e", " ", "e",
              "m", " ", "{scene}", ".">>,
            <<"N", "LATIN1", "o", " ", "d", "i", "g", "a", " ", "i", "s", "s", "o", " ",
              "e", "m", " ", "{scene}", ".">>
         >>,
         empathy_req |-> <<
            <<"T", "r", "a", "v", "o", "u", " ", "e", "m", " ", "{scene}", "?">>,
            <<"F", "a", "l", "o", "u", " ", "e", " ", "f", "i", "c", "o", "u", " ", "e",
              "s", "t", "r", "a", "n", "h", "o", "?">>
         >>,
         time_req |-> <<
            <<"3", "0", " ", "s", "e", "g", "u", "n", "d", "o", "s", " ", "p", "a", "r",
              "a", " ", "a", "c", "e", "r", "t", "a", "r", " ", "{mini}", ".">>,
            <<"M", "e", "i", "o", " ", "m", "i", "n", "u", "t", "o", " ", "p", "a", "r",
              "a", " ", "{scene}", ".">>
         >>,
         release_req |-> <<
            <<"P", "a", "r", "e", " ", "d", "e", " ", "d", "i", "z", "e", "r", " ", "a",
              "s", "s", "i", "m", ".", " ", "D", "i", "g", "a", " ", "a", "s", "s", "i",
              "m", ".">>,
            <<"C", "a", "n", "s", "o", "u", " ", "d", "e", " ", "e", "r", "r", "a", "r",
              "?", " ", "U", "s", "e", " ", "i", "s", "t", "o", ".">>
         >>,
         status_req |-> <<
            <<"D", "i", "g", "a", " ", "a", "s", "s", "i", "m", " ", "p", "a", "r", "a",
              " ", "s", "o", "a", "r", " ", "n", "a", "t", "u", "r", "a", "l", ".">>,
            <<"U", "m", "a", " ", "f", "r", "a", "s", "e", " ", "p", "a", "r", "a", " ",
              "s", "o", "a", "r", " ", "c", "o", "n", "f", "i", "a", "n", "t", "e", " ",
              "e", "m", " ", "{scene}", ".">>
         >>,
         confirm_req |-> <<
            <<"F", "i", "c", "o", "u", " ", "n", "a", " ", "d", "LATIN1", "v", "i", "d",
              "a", " ", "e", "m", " ", "{scene}", "?", " ", "U", "s", "e", " ", "i", "s",
              "t", "o", ".">>
         >>,
         direc_req |-> <<
            <<"P", "e", "r", "d", "i", "d", "o", " ", "e", "m", " ", "{scene}", "?", " ",
              "P", "e", "r", "g", "u", "n", "t", "e", " ", "a", "s", "s", "i", "m", ".">>
         >>,
         status_res |-> <<
            <<"A", "t", "e", "n", "d", "a", " ", "b", "e", "m", " ", "c", "o", "m", " ",
              "u", "m", "a", " ", "f", "r", "a", "s", "e", ".">>,
            <<"G", "u", "i", "e", " ", "c", "o", "m", " ", "n", "a", "t", "u", "r", "a",
              "l", "i", "d", "a", "d", "e", " ", "e", "m", " ", "{scene}", ".">>
         >>,
         time_res |-> <<
            <<"3", "0", " ", "s", "e", "g", "u", "n", "d", "o", "s", " ", "p", "a", "r",
              "a", " ", "m", "e", "l", "h", "o", "r", "a", "r", " ", "s", "u", "a", " ",
              "a", "b", "o", "r", "d", "a", "g", "e", "m", ".">>,
            <<"M", "e", "i", "o", " ", "m", "i", "n", "u", "t", "o", " ", "p", "a", "r",
              "a", " ", "r", "e", "c", "e", "b", "e", "r", " ", "m", "e", "l", "h", "o",
              "r", ".">>
         >>,
         release_res |-> <<
            <<"A", "b", "a", "n", "d", "o", "n", "e", " ", "o", " ", "f", "o", "r", "m",
              "a", "l", "i", "s", "m", "o", ".", " ", "F", "a", "l", "e", " ", "a", "s",
              "s", "i", "m", ".">>,
            <<"C", "h", "e", "g", "a", " ", "d", "e", " ", "r", "o", "d", "e", "i", "o",
              "s", ".", " ", "D", "i", "g", "a", " ", "i", "s", "t", "o", ".">>
         >>]]

\* add_callout[lang]
add_callout ==
    [en |-> <<"R", "e", "m", "e", "m", "b", "e", "r", " ", "j", "u", "s", "t", " ", "t",
         "h", "i", "s", " ", "l", "i", "n", "e", ".">>,
     ja |-> <<"KANA", "KANA", "KANJI", "KANJI", "KANA", "KANA", "KANJI", "KANA", "KANA",
         "KANA", "IDEO_STOP">>,
     ko |-> <<"HANGUL", " ", "HANGUL", "HANGUL", "HANGUL", "HANGUL", " ", "HANGUL",
         "HANGUL", " ", "HANGUL", ".">>,
     pt |-> <<"R", "e", "p", "i", "t", "a", " ", "s", "LATIN1", " ", "e", "s", "t", "a",
         " ", "f", "r", "a", "s", "e", ".">>]

\* base_map_en, as the pairs (key, value)
base_map_en ==
    <<<<<<"p", "o", "l", "i", "t", "e", " ", "r", "e", "q", "u", "e", "s", "t", "s">>,
        <<"p", "o", "l", "i", "t", "e", " ", "r", "e", "q", "u", "e", "s", "t", "s">>>>,
      <<<<"a", "s", "k", "i", "n", "g", " ", "&", " ", "g", "i", "v", "i", "n", "g", " ",
          "d", "i", "r", "e", "c", "t", "i", "o", "n", "s">>,
        <<"a", "s", "k", "i", "n", "g", " ", "f", "o", "r", " ", "d", "i", "r", "e", "c",
          "t", "i", "o", "n", "s">>>>,
      <<<<"a", "s", "k", "i", "n", "g", " ", "a", "n", "d", " ", "g", "i", "v", "i", "n",
          "g", " ", "d", "i", "r", "e", "c", "t", "i", "o", "n", "s">>,
        <<"a", "s", "k", "i", "n", "g", " ", "f", "o", "r", " ", "d", "i", "r", "e", "c",
          "t", "i", "o", "n", "s">>>>,
      <<<<"n", "u", "m", "b", "e", "r", "s", " ", "&", " ", "p", "r", "i", "c", "e", "s">>,
        <<"n", "u", "m", "b", "e", "r", "s", " ", "a", "n", "d", " ", "p", "r", "i", "c",
          "e", "s">>>>,
      <<<<"t", "i", "m", "e", " ", "&", " ", "d", "a", "t", "e", "s">>,
        <<"t", "i", "m", "e", " ", "a", "n", "d", " ", "d", "a", "t", "e", "s">>>>,
      <<<<"j", "o", "b", " ", "i", "n", "t", "e", "r", "v", "i", "e", "w", "s">>,
        <<"j", "o", "b", " ", "i", "n", "t", "e", "r", "v", "i", "e", "w", " ", "a", "n",
          "s", "w", "e", "r", "s">>>>,
      <<<<"r", "e", "s", "t", "a", "u", "r", "a", "n", "t", " ", "o", "r", "d", "e", "r",
          "i", "n", "g">>,
        <<"o", "r", "d", "e", "r", "i", "n", "g", " ", "a", "t", " ", "a", " ", "r", "e",
          "s", "t", "a", "u", "r", "a", "n", "t">>>>,
      <<<<"s", "h", "o", "p", "p", "i", "n", "g", " ", "b", "a", "s", "i", "c", "s">>,
        <<"s", "h", "o", "p", "p", "i", "n", "g">>>>,
      <<<<"p", "a", "y", "i", "n", "g", " ", "&", " ", "r", "e", "c", "e", "i", "p", "t",
          "s">>,
        <<"p", "a", "y", "i", "n", "g", " ", "a", "n", "d", " ", "r", "e", "c", "e", "i",
          "p", "t", "s">>>>,
      <<<<"h", "o", "t", "e", "l", " ", "c", "h", "e", "c", "k", "-", "i", "n", "/", "o",
          "u", "t">>,
        <<"h", "o", "t", "e", "l", " ", "c", "h", "e", "c", "k", "-", "i", "n">>>>,
      <<<<"s", "t", "r", "e", "e", "t", " ", "d", "i", "r", "e", "c", "t", "i", "o", "n",
          "s">>,
        <<"a", "s", "k", "i", "n", "g", " ", "f", "o", "r", " ", "d", "i", "r", "e", "c",
          "t", "i", "o", "n", "s">>>>,
      <<<<"o", "r", "d", "e", "r", "i", "n", "g", " ", "c", "o", "f", "f", "e", "e", " ",
          "a", "t", " ", "a", " ", "c", "a", "f", "e">>,
        <<"o", "r", "d", "e", "r", "i", "n", "g", " ", "a", "t", " ", "a", " ", "c", "a",
          "f", "e">>>>>>

\* "everyday phrases"
EverydayPhrases ==
    <<"e", "v", "e", "r", "y", "d", "a", "y", " ", "p", "h", "r", "a", "s", "e", "s">>

\* "a simple situation"
ASimpleSituation ==
    <<"a", " ", "s", "i", "m", "p", "l", "e", " ", "s", "i", "t", "u", "a", "t", "i", "o",
      "n">>

\* [A-Z] and [a-z], in alphabetical order
AsciiUpper ==
    <<"A", "B", "C", "D", "E", "F", "G", "H", "I", "J", "K", "L", "M", "N", "O", "P", "Q",
      "R", "S", "T", "U", "V", "W", "X", "Y", "Z">>
AsciiLower ==
    <<"a", "b", "c", "d", "e", "f", "g", "h", "i", "j", "k", "l", "m", "n", "o", "p", "q",
      "r", "s", "t", "u", "v", "w", "x", "y", "z">>

\* str.rstrip(chars) and str.strip(chars)
rstrip_chars(t, S) ==
    LET keep == {j \in DOMAIN t : t[j] \notin S}
    IN  IF keep = {} THEN <<>>
        ELSE SubSeq(t, 1, CHOOSE x \in keep : \A y \in keep : x >= y)
lstrip_chars(t, S) ==
    LET keep == {j \in DOMAIN t : t[j] \notin S}
    IN  IF keep = {} THEN <<>>
        ELSE SubSeq(t, CHOOSE x \in keep : \A y \in keep : x <= y, Len(t))
strip_chars(t, S) == rstrip_chars(lstrip_chars(t, S), S)

\* str.lower()
lower(t) ==
    LET lower_char(c) ==
            IF \E j \in DOMAIN AsciiUpper : AsciiUpper[j] = c
            THEN AsciiLower[CHOOSE j \in DOMAIN AsciiUpper : AsciiUpper[j] = c]
            ELSE c
    IN  [j \in DOMAIN t |-> lower_char(t[j])]

\* limit = max_en if lang in ("en", "pt") else max_en + 5
limit_of(lang) == IF lang \in {"en", "pt"} THEN HOOK_MAX_CHARS ELSE HOOK_MAX_CHARS + 5

\* if len(text) <= limit: return text
\* t = text[:limit].rstrip(" .、。!？?!"); return t + "…"
_limit(text, lang) ==
    LET limit == limit_of(lang)
        chars == {" ", ".", "IDEO_COMMA", "IDEO_STOP", "!", "FW_QUESTION", "?"}
    IN  IF Len(text) <= limit THEN text
        ELSE rstrip_chars(SubSeq(text, 1, limit), chars) \o <<"ELLIPSIS">>

\* the characters of t at the positions in K, in order
select_at(t, K) ==
    LET idx == SelectSeq([j \in DOMAIN t |-> j], LAMBDA j : j \in K)
    IN  [k \in DOMAIN idx |-> t[idx[k]]]

\* _normalize_spaces(s)
hook_normalize_spaces(s) ==
    LET \* re.sub(r"\s+", " ", s).strip(): of every run of blanks the first is
        \* kept, and none at either end
        collapse_spaces(t) ==
            strip_chars(select_at(t, {j \in DOMAIN t : t[j] # " " \/ j = 1 \/ t[j - 1] # " "}),
                        {" "})
        \* s.replace(" ，", "，").replace(" 。", "。").replace(" ！", "！").replace(" ？", "？")
        drop_space_before(t, S) ==
            select_at(t, {j \in DOMAIN t : ~(t[j] = " " /\ j < Len(t) /\ t[j + 1] \in S)})
    IN  drop_space_before(collapse_spaces(s),
                          {"FW_COMMA", "IDEO_STOP", "FW_EXCL", "FW_QUESTION"})

\* str.replace(c + c, r): the pairs of every run of c, from the left
replace_pair(t, c, r) ==
    LET before(j)     == {0} \cup {k \in 1..(j - 1) : t[k] # t[j]}
        \* position of t[j] in its run of the character t[j], from 1
        pos_in_run(j) == j - (CHOOSE x \in before(j) : \A y \in before(j) : x >= y)
        paired(j)     == t[j] = c /\ pos_in_run(j) % 2 = 1 /\ j < Len(t) /\ t[j + 1] = c
        second(j)     == t[j] = c /\ pos_in_run(j) % 2 = 0
        idx           == SelectSeq([j \in DOMAIN t |-> j], LAMBDA j : ~second(j))
    IN  [k \in DOMAIN idx |-> IF paired(idx[k]) THEN r ELSE t[idx[k]]]

_enforce_lang_clean(text, lang) ==
    LET \* _ASCII_WORD_RE: [A-Za-z]
        AsciiWordChars == {AsciiUpper[j] : j \in DOMAIN AsciiUpper}
                          \cup {AsciiLower[j] : j \in DOMAIN AsciiLower}
        \* _ASCII_SYMBOLS_RE: [\/\-\→\(\)\[\]\<\>\|\_]
        AsciiSymbols   == {"/", "-", "ARROW", "(", ")", "[", "]", "<", ">", "|", "_"}
        \* _ASCII_WORD_RE.sub("", t)
        remove_ascii_words(t) == SelectSeq(t, LAMBDA c : c \notin AsciiWordChars)
        \* _ASCII_SYMBOLS_RE.sub(" ", t): every run of symbols becomes one blank
        first_of_runs(t) ==
            select_at(t, {j \in DOMAIN t : t[j] \notin AsciiSymbols \/ j = 1
                                           \/ t[j - 1] \notin AsciiSymbols})
        blank(t) == [j \in DOMAIN t |-> IF t[j] \in AsciiSymbols THEN " " ELSE t[j]]
    IN  IF lang \in {"ja", "ko"}
        THEN hook_normalize_spaces(
                 replace_pair(
                     replace_pair(
                         replace_pair(blank(first_of_runs(remove_ascii_words(text))),
                                      ".", "IDEO_STOP"),
                         "!", "FW_EXCL"),
                     "?", "FW_QUESTION"))
        ELSE hook_normalize_spaces(text)

or_text(t, default) == IF t = <<>> THEN default ELSE t

\* re.split(r"[–\-—]", theme, maxsplit=1), the parts stripped
_parse_theme(theme) ==
    LET at == {q \in DOMAIN theme : theme[q] \in {"EN_DASH", "-", "EM_DASH"}}
        \* position of the first of [–\-—] in the theme, 0 when there is none
        p  == IF at = {} THEN 0 ELSE CHOOSE x \in at : \A y \in at : x <= y
    IN  IF theme = <<>> THEN [functional |-> EverydayPhrases, scene |-> ASimpleSituation]
        ELSE IF p = 0
             THEN [functional |-> or_text(strip_chars(theme, {" "}), EverydayPhrases),
                   scene |-> ASimpleSituation]
             ELSE [functional |-> or_text(strip_chars(SubSeq(theme, 1, p - 1), {" "}),
                                          EverydayPhrases),
                   scene |-> or_text(strip_chars(SubSeq(theme, p + 1, Len(theme)), {" "}),
                                     ASimpleSituation)]

\* translate(tc, target_lang) raised
TranslateRaised == [ok |-> FALSE, text |-> <<>>]

\* _localize(text_candidate, target_lang); tr is what translate() does
_localize(text_candidate, target_lang, tr) ==
    LET tc         == strip_chars(text_candidate, {" "})
        \* characters outside [\x00-\x7F]
        NonAscii   == {"KANA", "KANJI", "HANGUL", "LATIN1", "IDEO_COMMA", "IDEO_STOP",
                       "FW_QUESTION", "FW_EXCL", "FW_COMMA", "ELLIPSIS", "EN_DASH",
                       "EM_DASH", "ARROW"}
        \* _ASCII_ONLY_RE.fullmatch(tc)
        ascii_only == tc # <<>> /\ \A j \in DOMAIN tc : tc[j] \notin NonAscii
        \* the characters of strip(" ・:：-—|｜") that the texts of the model can hold
        chars      == {" ", ":", "-", "EM_DASH", "|"}
    IN  IF tc = <<>> THEN <<>>
        ELSE IF target_lang = "en" THEN hook_normalize_spaces(tc)
        ELSE IF ascii_only
             THEN IF tr.ok
                  THEN hook_normalize_spaces(strip_chars(tr.text, chars))
                  ELSE hook_normalize_spaces(tc)
        ELSE hook_normalize_spaces(tc)

_mini_and_scene_label(functional, scene, lang, tr_f, tr_s) ==
    LET \* base_map_en.get(t.strip().lower(), t)
        base_map_get(t) ==
            LET key == lower(strip_chars(t, {" "}))
            IN  IF \E j \in DOMAIN base_map_en : base_map_en[j][1] = key
                THEN base_map_en[CHOOSE j \in DOMAIN base_map_en : base_map_en[j][1] = key][2]
                ELSE t
        \* "this situation"
        ThisSituation ==
            <<"t", "h", "i", "s", " ", "s", "i", "t", "u", "a", "t", "i", "o", "n">>
        f_en     == base_map_get(or_text(functional, EverydayPhrases))
        s_en     == base_map_get(or_text(scene, ASimpleSituation))
        f_loc0   == hook_normalize_spaces(_localize(f_en, lang, tr_f))
        s_loc0   == hook_normalize_spaces(_localize(s_en, lang, tr_s))
        f_local  == IF f_loc0 = <<>> THEN hook_normalize_spaces(f_en) ELSE f_loc0
        s_local  == IF s_loc0 = <<>> THEN hook_normalize_spaces(s_en) ELSE s_loc0
        mini     == IF Len(f_local) <= Len(s_local) THEN f_local ELSE s_local
    IN  [mini  |-> or_text(mini, hook_normalize_spaces(or_text(f_local, EverydayPhrases))),
         scene |-> or_text(s_local, hook_normalize_spaces(or_text(s_en, ThisSituation)))]

\* _ROLE_MAP: keyword -> speaker
ROLE_MAP_speaker ==
    [restaurant |-> "customer", cafe |-> "customer", hotel |-> "guest",
     train |-> "traveler", station |-> "traveler", airport |-> "traveler",
     shopping |-> "customer", store |-> "customer", pharmacy |-> "customer",
     doctor |-> "patient", work |-> "colleague", gym |-> "member",
     direction |-> "traveler", ticket |-> "traveler"] @@ ("check-in" :> "guest")

_REQUESTER_ROLES ==
    {"customer", "guest", "traveler", "patient", "member", "friend", "colleague"}

\* _infer_roles: HOOK_SPEAKER/HOOK_LISTENER when both are set, else the
\* speaker of the keyword found in the theme and context, else "friend"
_infer_roles(keyword, hook_speaker) ==
    IF hook_speaker # "" THEN hook_speaker
    ELSE IF keyword \in DOMAIN ROLE_MAP_speaker THEN ROLE_MAP_speaker[keyword]
    ELSE "friend"

\* _preferred_order_by_pattern(p, requester)
_preferred_order_by_pattern(p, requester) ==
    IF ~requester THEN <<"status_res", "time_res", "release_res">>
    ELSE IF p \in {"direction", "route"}
    THEN <<"direc_req", "empathy_req", "time_req", "status_req", "release_req",
           "shock_req", "confirm_req">>
    ELSE IF p \in {"confirm", "availability", "detail"}
    THEN <<"confirm_req", "time_req", "status_req", "release_req", "empathy_req",
           "shock_req", "direc_req">>
    ELSE IF p \in {"could i", "would you", "may i", "polite"}
    THEN <<"status_req", "time_req", "release_req", "empathy_req", "shock_req",
           "confirm_req", "direc_req">>
    ELSE <<"empathy_req", "time_req", "status_req", "release_req", "shock_req",
           "confirm_req", "direc_req">>

\* HOOK_AB is not set
NoAB == 0 - 1

\* _pick_category(lang, pattern_hint, requester)
_pick_category(lang, pattern_hint, requester, hook_ab) ==
    IF hook_ab # NoAB
    THEN LET \* list(HOOKS[lang].keys())
             lang_keys == <<"shock_req", "empathy_req", "time_req", "release_req",
                            "status_req", "confirm_req", "direc_req", "status_res",
                            "time_res", "release_res">>
         IN  lang_keys[(hook_ab % Len(lang_keys)) + 1]
    ELSE LET order == _preferred_order_by_pattern(pattern_hint, requester)
             found == {j \in DOMAIN order : order[j] \in DOMAIN HOOKS[lang]}
         IN  IF found # {}
             THEN order[CHOOSE j \in found : \A k \in found : j <= k]
             ELSE IF requester THEN "empathy_req" ELSE "status_res"

\* template.format(mini=mini, scene=scene_label)
RECURSIVE format(_, _, _)
format(template, mini, scene) ==
    IF template = <<>> THEN <<>>
    ELSE (IF Head(template) = "{mini}" THEN mini
          ELSE IF Head(template) = "{scene}" THEN scene
          ELSE <<Head(template)>>) \o format(Tail(template), mini, scene)

\* lang = (audio_lang or "en").lower(); if lang not in HOOKS: lang = "en"
hook_lang(audio_lang) == IF audio_lang \in DOMAIN HOOKS THEN audio_lang ELSE "en"

\* the templates random.choice draws from
hook_templates(a) ==
    LET lang      == hook_lang(a.audio_lang)
        requester == _infer_roles(a.keyword, a.hook_speaker) \in _REQUESTER_ROLES
    IN  HOOKS[lang][_pick_category(lang, a.pattern_hint, requester, a.hook_ab)]

\* generate_hook(theme, audio_lang, pattern_hint, context) with the template
\* random.choice drew
generate_hook(a, template) ==
    LET lang         == hook_lang(a.audio_lang)
        parsed       == _parse_theme(a.theme)
        ms           == _mini_and_scene_label(parsed.functional, parsed.scene, lang,
                                              a.tr_f, a.tr_s)
        text0        == format(template, ms.mini, ms.scene)
        with_callout == text0 \o <<" ">> \o add_callout[lang]
        text1        == IF Len(with_callout) <= limit_of(lang) THEN with_callout ELSE text0
    IN  _limit(_enforce_lang_clean(text1, lang), lang)

\* ------------------------------------------------------ generate_hook: inputs
\* "functional – scene", the scene alone, or nothing; the scene of a theme
\* is one long word, Latin or kana, or two words
HookThemes ==
    LET HookSceneLens   == {4} \cup ((MaxSceneLen - 6)..MaxSceneLen)
        HookScenes      ==
            {Rep("s", n) : n \in HookSceneLens}
            \cup {Rep("KANA", n) : n \in {4, MaxSceneLen - 4, MaxSceneLen}}
            \cup {Rep("s", MaxSceneLen - k) \o <<" ">> \o Rep("s", k + 8) : k \in 3..5}
        HookFunctionals ==
            {<<"f", "x">>,
             <<"P", "o", "l", "i", "t", "e", " ", "R", "e", "q", "u", "e", "s", "t", "s">>}
    IN  {<<>>} \cup {Rep("s", MaxSceneLen)}
        \cup {f \o <<" ", "EN_DASH", " ">> \o sc : f \in HookFunctionals, sc \in HookScenes}
        \cup {<<"f", "x", "-">> \o Rep("s", MaxSceneLen), <<"f", "x", " ", "EM_DASH">>}

\* what translate() does for the functional part and for the scene: it
\* raises or returns a text of any length in the characters of the language
HookTranslations(lang) ==
    LET c == IF lang = "ja" THEN "KANA" ELSE IF lang = "ko" THEN "HANGUL" ELSE "LATIN1"
    IN  IF lang \in {"ja", "ko", "pt"}
        THEN [f : {TranslateRaised, [ok |-> TRUE, text |-> Rep(c, 3)]},
              s : {TranslateRaised, [ok |-> TRUE, text |-> Rep(c, 5)],
                   [ok |-> TRUE, text |-> <<"-", " ">> \o Rep(c, MaxSceneLen)]}]
        ELSE {[f |-> TranslateRaised, s |-> TranslateRaised]}

HookArgs ==
    {[theme |-> th, audio_lang |-> lang, pattern_hint |-> hint, keyword |-> kw,
      hook_speaker |-> spk, hook_ab |-> ab, tr_f |-> tr.f, tr_s |-> tr.s] :
        th \in HookThemes, lang \in {"en", "pt", "ja", "ko", "es"},
        hint \in {"", "direction", "confirm", "polite"},
        kw \in {"", "hotel"}, spk \in {"", "waiter"}, ab \in {NoAB, 3},
        tr \in UNION {HookTranslations(l) : l \in {"en", "pt", "ja", "ko"}}}

\* ----------------------------------------------------- generate_hook: actions
\* generate_hook was called with hook_args and has not returned
InitHook ==
    /\ PipelineIdle
    /\ NoUpload
    /\ NoRunAll
    /\ \E a \in HookArgs :
          /\ [f |-> a.tr_f, s |-> a.tr_s] \in HookTranslations(hook_lang(a.audio_lang))
          /\ a.keyword # "" => a.hook_speaker = "" /\ a.hook_ab = NoAB
          /\ hook_args = a
    /\ hook_out = [returned |-> FALSE, text |-> <<>>]

\* generate_hook returns: template = random.choice(HOOKS[lang][cat])
GenerateHook ==
    /\ ~hook_out.returned
    /\ \E j \in DOMAIN hook_templates(hook_args) :
          hook_out' = [returned |-> TRUE,
                       text |-> generate_hook(hook_args, hook_templates(hook_args)[j])]
    /\ UNCHANGED hook_args
    /\ UNCHANGED <<pipelineVars, uploadVars, runAllVars>>

NextHook == GenerateHook

SpecHook == InitHook /\ [][NextHook]_vars


\* ========================================================== main.py: run_all
\* trend_lang = subs[1] if len(subs) > 1 else audio_lang
trend_lang_of(combo) == IF Len(combo.subs) > 1 THEN combo.subs[2] ELSE combo.audio

\* COMBOS of a process: [c for c in COMBOS if c.get("account") == TARGET_ONLY]
\* when TARGET_ONLY is set, else all; as indices into combos.yaml
selected(target_only) ==
    SelectSeq([k \in DOMAIN combos_yaml |-> k],
              LAMBDA k : target_only = "" \/ combos_yaml[k].account = target_only)

\* _load_cache: the file exists and time.time() - _ts <= ttl_min * 60
cache_valid(lang) ==
    /\ trend_cache[lang].saved
    /\ clock - trend_cache[lang].ts <= cache_ttl_minutes

\* reset_temp(): rmtree(TEMP) removes temp/trends with every cache file
reset_temp(cache) == [l \in DOMAIN cache |-> [saved |-> FALSE, ts |-> 0]]

\* the isolated process that runs the loop over its COMBOS
StartChild(id, target_only, topic) ==
    [running |-> TRUE, id |-> id, target_only |-> target_only, topic |-> topic,
     i |-> 1, at |-> "topic", trend |-> "none"]

ChildAtCombo == child.running /\ child.i <= Len(selected(child.target_only))
\* index in combos.yaml of the combo the isolated loop is at
CurrentCombo == selected(child.target_only)[child.i]

\* parent run_all: subprocess.run of main.py --account <account of the
\* combo> with ISOLATED_RUN=1; the parent waits for the child
Spawn ==
    /\ ~invocation.isolated
    /\ ~child.running
    /\ parent_i <= Len(selected(invocation.target_only))
    /\ LET k == selected(invocation.target_only)[parent_i]
       IN  child' = StartChild(parent_i, combos_yaml[k].account, invocation.topic)
    /\ UNCHANGED <<combos_yaml, invocation, parent_i, trend_cache, clock, run_log, trend_log>>
    /\ UNCHANGED <<pipelineVars, uploadVars, hookVars>>

\* the isolated loop ends; in parent mode subprocess.run returns and the
\* parent goes to its next combo
ChildExit ==
    /\ child.running
    /\ child.i > Len(selected(child.target_only))
    /\ child' = [child EXCEPT !.running = FALSE, !.at = "exit"]
    /\ parent_i' = IF invocation.isolated THEN parent_i ELSE parent_i + 1
    /\ UNCHANGED <<combos_yaml, invocation, trend_cache, clock, run_log, trend_log>>
    /\ UNCHANGED <<pipelineVars, uploadVars, hookVars>>

TrendEntry(how) ==
    [child |-> child.id, combo |-> CurrentCombo,
     lang |-> trend_lang_of(combos_yaml[CurrentCombo]), how |-> how, at |-> clock]

\* AUTO_TREND, get_trend_candidates returns the cached candidates
TrendCached ==
    /\ ChildAtCombo /\ child.at = "topic"
    /\ child.topic = "AUTO_TREND"
    /\ cache_valid(trend_lang_of(combos_yaml[CurrentCombo]))
    /\ trend_log' = Append(trend_log, TrendEntry("cache"))
    /\ child' = [child EXCEPT !.at = "run_one", !.trend = "cache"]
    /\ UNCHANGED <<combos_yaml, invocation, parent_i, trend_cache, clock, run_log>>
    /\ UNCHANGED <<pipelineVars, uploadVars, hookVars>>

\* AUTO_TREND, no valid cache: get_trend_candidates fetches over HTTP and
\* saves the candidates with _ts = time.time()
TrendFetched ==
    /\ ChildAtCombo /\ child.at = "topic"
    /\ child.topic = "AUTO_TREND"
    /\ ~cache_valid(trend_lang_of(combos_yaml[CurrentCombo]))
    /\ trend_cache' = [trend_cache EXCEPT
                          ![trend_lang_of(combos_yaml[CurrentCombo])] =
                              [saved |-> TRUE, ts |-> clock]]
    /\ trend_log' = Append(trend_log, TrendEntry("http"))
    /\ child' = [child EXCEPT !.at = "run_one", !.trend = "http"]
    /\ UNCHANGED <<combos_yaml, invocation, parent_i, clock, run_log>>
    /\ UNCHANGED <<pipelineVars, uploadVars, hookVars>>

\* AUTO_TREND, no valid cache and the fetch fails: get_trend_candidates
\* raises, the except branch sets topic = "AUTO" and the AUTO picker runs
TrendFailed ==
    /\ ChildAtCombo /\ child.at = "topic"
    /\ child.topic = "AUTO_TREND"
    /\ ~cache_valid(trend_lang_of(combos_yaml[CurrentCombo]))
    /\ trend_log' = Append(trend_log, TrendEntry("failed"))
    /\ child' = [child EXCEPT !.at = "run_one", !.trend = "failed", !.topic = "AUTO"]
    /\ UNCHANGED <<combos_yaml, invocation, parent_i, trend_cache, clock, run_log>>
    /\ UNCHANGED <<pipelineVars, uploadVars, hookVars>>

\* the topic is not AUTO_TREND: the AUTO picker, or the given theme
TopicWithoutTrend ==
    /\ ChildAtCombo /\ child.at = "topic"
    /\ child.topic # "AUTO_TREND"
    /\ child' = [child EXCEPT !.at = "run_one", !.trend = "none"]
    /\ UNCHANGED <<combos_yaml, invocation, parent_i, trend_cache, clock, run_log, trend_log>>
    /\ UNCHANGED <<pipelineVars, uploadVars, hookVars>>

RunEntry ==
    [child |-> child.id, combo |-> CurrentCombo, trend |-> child.trend, at |-> clock]

\* run_one(...) is called, clears temp and returns; the loop goes on
RunOne ==
    /\ ChildAtCombo /\ child.at = "run_one"
    /\ run_log' = Append(run_log, RunEntry)
    /\ trend_cache' = reset_temp(trend_cache)
    /\ clock' = clock + 1
    /\ child' = [child EXCEPT !.i = child.i + 1, !.at = "topic", !.trend = "none"]
    /\ UNCHANGED <<combos_yaml, invocation, parent_i, trend_log>>
    /\ UNCHANGED <<pipelineVars, uploadVars, hookVars>>

\* run_one(...) is called, clears temp and raises: nothing in run_all
\* catches it and the process ends
RunOneRaise ==
    /\ ChildAtCombo /\ child.at = "run_one"
    /\ run_log' = Append(run_log, RunEntry)
    /\ trend_cache' = reset_temp(trend_cache)
    /\ clock' = clock + 1
    /\ child' = [child EXCEPT !.running = FALSE, !.at = "raised"]
    /\ parent_i' = IF invocation.isolated THEN parent_i ELSE parent_i + 1
    /\ UNCHANGED <<combos_yaml, invocation, trend_log>>
    /\ UNCHANGED <<pipelineVars, uploadVars, hookVars>>

\* combos.yaml holds combos of account, audio language and subtitle
\* languages; the topic is AUTO_TREND (topic.strip().upper()), AUTO
\* (topic.strip().lower() == "auto") or a theme given on the command line;
\* main.py is invoked: in parent mode, or with ISOLATED_RUN=1; TARGET_ONLY
\* is empty or matches a combo (no match ends the process with SystemExit(2));
\* temp/trends may hold a cache file left by `python trend_fetcher.py en`,
\* fresh or older than the TTL
InitRunAll ==
    /\ PipelineIdle
    /\ NoUpload
    /\ NoHookCall
    /\ combos_yaml \in UNION {[1..n -> [account : {"acc1", "acc2"}, audio : {"en"},
                                        subs : {<<"en">>, <<"en", "ja">>}]] :
                                   n \in 1..MaxCombos}
    /\ \E topic \in {"AUTO_TREND", "AUTO", "travel"}, target \in {"", "acc1", "acc2"},
          isolated \in BOOLEAN :
          /\ selected(target) # <<>>
          /\ invocation = [topic |-> topic, target_only |-> target, isolated |-> isolated]
          /\ child = IF isolated THEN StartChild(0, target, topic)
                     ELSE [running |-> FALSE, id |-> 0, target_only |-> "",
                           topic |-> "", i |-> 0, at |-> "exit", trend |-> "none"]
    /\ parent_i = 1
    /\ clock = cache_ttl_minutes + 1
    /\ \E ts \in {0, clock} :
          trend_cache \in {[l \in {"en", "ja"} |-> [saved |-> FALSE, ts |-> 0]],
                           [l \in {"en", "ja"} |->
                               IF l = "en" THEN [saved |-> TRUE, ts |-> ts]
                               ELSE [saved |-> FALSE, ts |-> 0]]}
    /\ run_log = <<>>
    /\ trend_log = <<>>

NextRunAll ==
    \/ Spawn \/ ChildExit
    \/ TrendCached \/ TrendFetched \/ TrendFailed \/ TopicWithoutTrend
    \/ RunOne \/ RunOneRaise

SpecRunAll == InitRunAll /\ [][NextRunAll]_vars


\* ================================================================== claims
\* _concat_with_gaps has just returned its duration list
Returned == pc = "enhance"

\* the pieces of slot idx on the track
RECURSIVE FramesOf(_, _, _)
FramesOf(track, idx, kinds) ==
    IF track = <<>> THEN 0
    ELSE (IF Head(track).idx = idx /\ Head(track).kind \in kinds
          THEN Head(track).frames ELSE 0) + FramesOf(Tail(track), idx, kinds)

HasPiece(track, idx, kind) ==
    \E j \in DOMAIN track : track[j].idx = idx /\ track[j].kind = kind

SegFrames(idx) == FramesOf(combined, idx, {"pre", "clip", "pad"})
GapFrames(idx) == FramesOf(combined, idx, {"gap"})

\* C1: when the timeline builder has returned, the sum of the slot durations
\* equals exactly the length of the audio track it built
C1_DurationConservation ==
    Returned /\ durs # <<>> => SumSeq(durs) = track_ms(combined, cfg.rate)


\* the clip pieces of the track, in track order
ClipPieces == SelectSeq(combined, LAMBDA pc_ : pc_.kind = "clip")

\* C2: the builder emits exactly one slot per utterance, in utterance order:
\* slot i, clip i and row i of lines_data belong to utterance i
C2_SlotCount ==
    /\ Returned /\ valid_dialogue # <<>> =>
          /\ Len(durs) = Len(valid_dialogue)
          /\ Len(ClipPieces) = Len(valid_dialogue)
          /\ \A i \in DOMAIN durs :
                /\ ClipPieces[i].idx = i - 1
                /\ ClipPieces[i].frames = audio_parts[i].frames
                /\ durs[i] = len_ms(SegFrames(i - 1), cfg.rate)
                             + len_ms(GapFrames(i - 1), cfg.rate)
    /\ pc \in {"video", "done"} /\ valid_dialogue # <<>> =>
          /\ Len(lines_data) = Len(valid_dialogue)
          /\ \A i \in DOMAIN lines_data :
                /\ lines_data[i].dur = durs[i]
                /\ Len(lines_data[i].rows) = subs
                /\ \A r \in 1..subs : lines_data[i].rows[r] = sub_text(valid_dialogue[i], r)

\* a finished run with a hook line and slots of different lengths
C2_Witness ==
    /\ pc = "done"
    /\ hook_offset = 1
    /\ Len(lines_data) = Len(valid_dialogue)
    /\ lines_data[1].rows[1].of = HookLine
    /\ \E i, j \in DOMAIN durs : durs[i] # durs[j]

\* C3: gap_ms of silence follows every clip but the last and is counted in
\* that clip's slot; nothing follows the last clip
C3_GapRule ==
    pc \in {"concat", "enhance"} =>
      \A i \in DOMAIN durs :
        LET idx == i - 1
            n   == Len(audio_parts)
        IN  /\ idx < n - 1 =>
                 /\ GapFrames(idx) = silent(cfg.gap_ms, cfg.rate)
                 /\ durs[i] = len_ms(SegFrames(idx), cfg.rate) + cfg.gap_ms
            /\ idx = n - 1 =>
                 /\ ~HasPiece(combined, idx, "gap")
                 /\ durs[i] = len_ms(SegFrames(idx), cfg.rate)
            /\ \A j \in DOMAIN combined :
                 combined[j].kind = "gap" /\ combined[j].idx = idx =>
                    /\ j > 1
                    /\ combined[j - 1].idx = idx
                    /\ combined[j - 1].kind \in {"clip", "pad"}
                    /\ j < Len(combined) => combined[j + 1].idx = idx + 1

\* a returned timeline of at least three clips with a non-zero gap
C3_Witness ==
    /\ pc = "enhance"
    /\ cfg.gap_ms > 0
    /\ Len(durs) >= 3
    /\ HasPiece(combined, 0, "gap")
    /\ ~HasPiece(combined, Len(durs) - 1, "gap")


\* C4: every clip is prefixed with pre_ms of silence; a result shorter than
\* min_ms is extended with trailing silence to exactly min_ms, any other is
\* left unchanged; the slot lasts the padded length plus its gap, so at least
\* min_ms
C4_PaddingRule ==
    pc \in {"concat", "enhance"} =>
      \A i \in DOMAIN durs :
        LET idx  == i - 1
            pre  == FramesOf(combined, idx, {"pre"})
            clip == FramesOf(combined, idx, {"clip"})
            raw  == len_ms(pre + clip, cfg.rate)
            gap  == len_ms(GapFrames(idx), cfg.rate)
        IN  /\ pre = silent(cfg.pre_ms, cfg.rate)
            /\ clip = audio_parts[i].frames
            /\ raw < cfg.min_ms =>
                  /\ HasPiece(combined, idx, "pad")
                  /\ len_ms(SegFrames(idx), cfg.rate) = cfg.min_ms
            /\ raw >= cfg.min_ms =>
                  /\ ~HasPiece(combined, idx, "pad")
                  /\ SegFrames(idx) = pre + clip
            /\ durs[i] = len_ms(SegFrames(idx), cfg.rate) + gap
            /\ durs[i] >= cfg.min_ms

\* a returned timeline with one padded and one unpadded clip
C4_Witness ==
    /\ pc = "enhance"
    /\ cfg.min_ms > 0
    /\ cfg.pre_ms > 0
    /\ \E i, j \in DOMAIN durs :
          /\ HasPiece(combined, i - 1, "pad")
          /\ ~HasPiece(combined, j - 1, "pad")

\* the run of Scenario 1 after the builder returned
Scenario1Built ==
    /\ Returned
    /\ cfg = Scenario1Config
    /\ audio_parts = <<clip_file(900), clip_file(1200), clip_file(700)>>

\* C5 as stated: Scenario 1 yields slots [1140, 1440, 1120] and a 3700 ms track
C5_Scenario1_AsStated ==
    Scenario1Built =>
        /\ durs = <<1140, 1440, 1120>>
        /\ track_ms(combined, cfg.rate) = 3700

\* C5: clips of [900, 1200, 700] ms with leading_silence = 120, min_duration =
\* 1000 and gap = 120 yield slots [1140, 1440, 1000] ms (no gap after the last
\* clip) and a track of 3580 ms
C5_Scenario1 ==
    Scenario1Built =>
        /\ durs = <<1140, 1440, 1000>>
        /\ track_ms(combined, cfg.rate) = 3580

\* Scenario 1 was built and handed on
C5_Witness == Scenario1Built /\ Len(durs) = 3 /\ full_ms > 0

\* C6: a missing or zero-length clip never removes an utterance: once the
\* builder has been run on the clips of all utterances, there is one slot per
\* utterance, and the slot of a missing or empty clip lasts min_ms plus its gap
C6_NoUtteranceDropped ==
    /\ pc \notin {"hook", "tts", "concat"}
    /\ Len(audio_parts) = Len(valid_dialogue)
    /\ valid_dialogue # <<>>
    => /\ Len(durs) = Len(valid_dialogue)
       /\ \A i \in DOMAIN durs :
             (audio_parts[i] = Missing \/ audio_parts[i].frames = 0) =>
                 durs[i] = Max2(cfg.min_ms, cfg.pre_ms)
                           + extra_gap(i - 1, Len(audio_parts), cfg.gap_ms)

\* C7: video segment i lasts exactly the declared duration of slot i and shows
\* the rows of utterance i; the segments are concatenated in slot order and
\* the visual duration is the sum of the slot durations
C7_SegmentDurations ==
    /\ \A k \in DOMAIN clips :
          /\ clips[k].duration = durs[k]
          /\ \A r \in 1..subs : clips[k].rows[r] = sub_text(valid_dialogue[k], r)
    /\ pc = "done" =>
          /\ video.written
          /\ video.segs = durs
          /\ video.duration = SumSeq(durs)

\* a written video of at least three segments of different lengths
C7_Witness ==
    /\ pc = "done"
    /\ video.written
    /\ Len(video.segs) >= 3
    /\ \E i, j \in DOMAIN durs : durs[i] # durs[j]


\* ------------------------------------------------------ caption block claims
\* the block of segment k as laid out before the overflow correction
Uncorrected(k) ==
    place_rows(subs, measure[k], subs,
               lines_data[k].spk = "N" /\ monologue_center).elem

\* bottom edge of the lowest panel of segment k before the correction
LowestPanelBottom(k) ==
    LET e == Uncorrected(k) IN e[2 * subs - 1].y + e[2 * subs - 1].h

\* pixels by which the lowest panel passes the bottom safe line
Excess(k) == LowestPanelBottom(k) - (SCREEN_H - BOTTOM_MARGIN)

AbsDiff(a, b) == IF a >= b THEN a - b ELSE b - a

\* C8: no video is written whose visual duration and audio duration differ by
\* more than one frame interval (1000 / VIDEO_FPS ms): assembly aborts instead
C8_AbortOnMismatch ==
    video.written => VIDEO_FPS * AbsDiff(video.duration, video.audio_ms) <= 1000

\* C9: the overflow correction moves the block up by exactly the number of
\* pixels by which the lowest panel's bottom passes SCREEN_H - BOTTOM_MARGIN
\* (140 px for a 3-row block that is 140 px too low)
C9_ShiftEqualsExcess ==
    \A k \in DOMAIN clips :
        Excess(k) > 0 =>
            \A j \in DOMAIN clips[k].elem :
                clips[k].elem[j].y = Uncorrected(k)[j].y - Excess(k)

\* C10: a corrected block is moved as one: every panel and every text row by
\* the same vertical offset, no horizontal change, row distances unchanged
C10_BlockWideShift ==
    \A k \in DOMAIN clips :
        LET e0 == Uncorrected(k)
            e1 == clips[k].elem
            d  == e0[1].y - e1[1].y
        IN  /\ Len(e1) = Len(e0)
            /\ \A j \in DOMAIN e1 :
                  /\ e1[j].y = e0[j].y - d
                  /\ e1[j].x = e0[j].x
                  /\ e1[j].kind = e0[j].kind /\ e1[j].row = e0[j].row
                  /\ e1[j].w = e0[j].w /\ e1[j].h = e0[j].h
            /\ \A i, j \in DOMAIN e1 : e1[j].y - e1[i].y = e0[j].y - e0[i].y

\* a composed 3-row block that the correction has moved
C10_Witness ==
    \E k \in DOMAIN clips :
        /\ subs = 3
        /\ Excess(k) > 0
        /\ clips[k].elem[1].y < Uncorrected(k)[1].y
        /\ clips[k].elem[6].y < Uncorrected(k)[6].y


\* the gap the configuration gives to rows i and i+1 (i counted from 0)
ConfiguredGap(rows, i) ==
    IF rows = 2 THEN LINE_GAP_DEFAULT
    ELSE IF i = 0 THEN LINE_GAP_TOP_TO_FURI ELSE LINE_GAP_FURI_TO_BOT

\* the panel and the text of row r (counted from 1) in a list of elements
PanelOf(e, r) == e[2 * r - 1]
TextOf(e, r) == e[2 * r]

\* rows r and r+1 of e are stacked: the text of r+1 is strictly below the
\* text of r and the panel of r+1 starts exactly the configured gap below
\* the bottom of the panel of r
Stacked(e, rows) ==
    \A r \in 1..(rows - 1) :
        /\ TextOf(e, r + 1).y > TextOf(e, r).y
        /\ PanelOf(e, r + 1).y - (PanelOf(e, r).y + PanelOf(e, r).h)
               = ConfiguredGap(rows, r - 1)

\* C11: in every caption block the row loop places the text of row 0 at
\* POS_Y and every following row strictly below it, the panel of row i+1
\* starting exactly the configured gap below the bottom of the panel of
\* row i, whatever the row heights; the spacing also holds of the block as
\* it is composed
C11_VerticalStacking ==
    \A k \in DOMAIN clips :
        /\ TextOf(clips[k].placed, 1).y = POS_Y
        /\ PanelOf(clips[k].placed, 1).y = POS_Y - PAD_Y
        /\ Stacked(clips[k].placed, subs)
        /\ Stacked(clips[k].elem, subs)

\* a composed block of three rows of three different heights
C11_Witness ==
    /\ subs = 3
    /\ clips # <<>>
    /\ measure[1][1].h # measure[1][2].h
    /\ measure[1][2].h # measure[1][3].h
    /\ measure[1][1].h # measure[1][3].h
    /\ Len(clips[1].elem) = 6


\* the shift of the axis of block k from the centre of the frame
AxisShift(k) ==
    IF lines_data[k].spk = "N" /\ monologue_center THEN 0 ELSE SHIFT_X

\* C12: in every composed block the text and the panel of every row, whatever
\* their widths, are centred on one vertical axis: the centre of the frame
\* plus one shift that is the same for all rows of the block (twice the
\* centre is compared, so that no half pixel is lost)
C12_HorizontalAlignment ==
    \A k \in DOMAIN clips :
        \A j \in DOMAIN clips[k].elem :
            2 * clips[k].elem[j].x + clips[k].elem[j].w
               = SCREEN_W + 2 * AxisShift(k)

\* a composed block of three rows whose panels are wider than their texts,
\* on the shifted axis
C12_Witness ==
    /\ subs = 3
    /\ clips # <<>>
    /\ AxisShift(1) = SHIFT_X
    /\ PanelOf(clips[1].elem, 3).w > TextOf(clips[1].elem, 3).w
    /\ PanelOf(clips[1].elem, 1).x # TextOf(clips[1].elem, 1).x


\* the wrapped body of row r of the composed block k, and the text it was
\* made from
BodyOf(k, r) == clips[k].texts[r].body
InputOf(k, r) == or_empty(row_str[k][r])

\* the line breaks are deleted, or each is read as one blank
remove_breaks(out) == SelectSeq(out, LAMBDA c : c # NL)
breaks_to_blanks(out) == [j \in DOMAIN out |-> IF out[j] = NL THEN " " ELSE out[j]]
\* trimmed, and every run of whitespace turned into one blank
normalize_whitespace(t) == join(<<" ">>, split(t))

\* C13: for every row text, the output of the wrapper with its line breaks
\* taken out (deleted, or read as blanks) is, after whitespace
\* normalisation, the whitespace-normalised input: no character is dropped,
\* added or reordered
C13_WrapLossless ==
    \A k \in DOMAIN clips :
        \A r \in 1..subs :
            \/ normalize_whitespace(remove_breaks(BodyOf(k, r)))
                  = normalize_whitespace(InputOf(k, r))
            \/ normalize_whitespace(breaks_to_blanks(BodyOf(k, r)))
                  = normalize_whitespace(InputOf(k, r))


\* out.split("\n"), and no line at all for the empty text
RECURSIVE split_lines(_, _)
split_lines(t, cur) ==
    IF t = <<>> THEN <<cur>>
    ELSE IF Head(t) = NL THEN <<cur>> \o split_lines(Tail(t), <<>>)
    ELSE split_lines(Tail(t), Append(cur, Head(t)))
lines_of(t) == IF t = <<>> THEN <<>> ELSE split_lines(t, <<>>)

\* the column budget of row r (counted from 1) of a Latin row
BudgetOf(r) == approx_char_per_line(FONT_SIZES(params)[r])

\* a whitespace-free Latin token longer than the budget of its row
LongToken(k, r) ==
    /\ is_ascii(InputOf(k, r))
    /\ \A j \in DOMAIN InputOf(k, r) : InputOf(k, r)[j] # " "
    /\ Len(InputOf(k, r)) > BudgetOf(r)

HasSep(line) == \E j \in DOMAIN line : line[j] \in {"-", "/"}

\* Scenario 2: every line but the last of the token
\* internationalization-readiness-checklist at budget 12 ends at a hyphen
Scenario2AtHyphens ==
    \A k \in DOMAIN clips :
        \A r \in 1..subs :
            InputOf(k, r) = Scenario2Token /\ BudgetOf(r) = 12 =>
                \A j \in 1..(Len(lines_of(BodyOf(k, r))) - 1) :
                    lines_of(BodyOf(k, r))[j][Len(lines_of(BodyOf(k, r))[j])] = "-"

\* C14: a whitespace-free Latin token longer than the column budget comes
\* out in lines of at most budget characters that concatenate to the token,
\* and it is cut at its hyphens and slashes first: a line that does not end
\* at a hyphen or slash holds none; for Scenario 2 the breaks fall at the
\* hyphens
C14_HardSplit ==
    /\ Scenario2AtHyphens
    /\ \A k \in DOMAIN clips :
        \A r \in 1..subs :
            LongToken(k, r) =>
                LET ls == lines_of(BodyOf(k, r))
                IN  /\ \A j \in DOMAIN ls : Len(ls[j]) <= BudgetOf(r)
                    /\ join(<<>>, ls) = InputOf(k, r)
                    /\ \A j \in 1..(Len(ls) - 1) :
                          ls[j][Len(ls[j])] \in {"-", "/"} \/ ~HasSep(ls[j])


\* a row text that is missing, empty or all whitespace
IsEmptyInput(t) == t = None \/ \A j \in DOMAIN t : t[j] = " "

\* the characters of a text that are neither whitespace nor line breaks
Squeeze(t) == SelectSeq(t, LAMBDA c : c \notin {" ", NL})

\* C15: for a missing, empty or whitespace-only row text the wrapper returns
\* the empty text (no line); the row stays in the block at its own index,
\* with its panel and its text clip, and every other row still shows the
\* characters of its own text
C15_EmptyInput ==
    \A k \in DOMAIN clips :
        \A r \in 1..subs :
            IsEmptyInput(row_str[k][r]) =>
                /\ BodyOf(k, r) = <<>>
                /\ lines_of(BodyOf(k, r)) = <<>>
                /\ Len(clips[k].texts) = subs
                /\ Len(clips[k].elem) = 2 * subs
                /\ PanelOf(clips[k].elem, r).row = r - 1
                /\ TextOf(clips[k].elem, r).row = r - 1
                /\ \A q \in 1..subs :
                      ~IsEmptyInput(row_str[k][q]) =>
                          Squeeze(BodyOf(k, q)) = Squeeze(row_str[k][q])

\* a composed block of three rows: the first two missing, the third the
\* token of Scenario 2
C15_Witness ==
    /\ subs = 3
    /\ clips # <<>>
    /\ row_str[1][1] = None
    /\ row_str[1][2] = None
    /\ row_str[1][3] = Scenario2Token
    /\ BodyOf(1, 1) = <<>>
    /\ BodyOf(1, 3) # <<>>

\* the positions of the characters of a text that have a Hangul, CJK or
\* kana name
Scripted(t) == {j \in DOMAIN t : t[j] \in HangulNamed \cup CjkNamed}
FirstScripted(t) == CHOOSE j \in Scripted(t) : \A i \in Scripted(t) : j <= i

RenderedLines(k, r) == lines_of(clips[k].texts[r].text)

\* C17 as stated: every row that contains a CJK ideograph or kana character
\* is rendered in lines of at most the character count of the row
C17_CjkLines_AsStated ==
    \A k \in DOMAIN clips :
        \A r \in 1..subs :
            (\E j \in DOMAIN InputOf(k, r) : InputOf(k, r)[j] \in CjkNamed) =>
                \A j \in DOMAIN RenderedLines(k, r) :
                    Len(RenderedLines(k, r)[j]) <= CJK_WIDTHS[r]

\* rows whose CJK characters all lie outside the two ranges are wrapped as
\* Latin rows, at the column budget of the font size
CjkOutsideRanges ==
    \A k \in DOMAIN clips :
        \A r \in 1..subs :
            ~has_cjk(InputOf(k, r)) =>
                \A j \in DOMAIN lines_of(BodyOf(k, r)) :
                    Len(lines_of(BodyOf(k, r))[j]) <= BudgetOf(r)

\* C17: the body of every row that contains a character of the ranges
\* U+3040-30FF or U+4E00-9FFF is wrapped in lines of at most the count of
\* the row (16 for row 0, more for the rows below); a text without
\* whitespace or hyphen is cut at the count exactly; the text rendered for
\* row 0 is the body when no speaker label is shown; a row with no character
\* of the two ranges is wrapped at the column budget of its font size
C17_CjkBodyLines ==
    /\ CjkOutsideRanges
    /\ \A k \in DOMAIN clips :
        \A r \in 1..subs :
            has_cjk(InputOf(k, r)) =>
                LET ls == lines_of(BodyOf(k, r))
                    w  == IF r = 1 THEN CJK_WIDTH_TOP ELSE CJK_WIDTHS[r]
                IN  /\ \A j \in DOMAIN ls : Len(ls[j]) <= w
                    /\ r > 1 => w > CJK_WIDTH_TOP
                    /\ (\A j \in DOMAIN InputOf(k, r) :
                            InputOf(k, r)[j] \notin {" ", "-"})
                          => \A j \in 1..(Len(ls) - 1) : Len(ls[j]) = w
                    /\ (r = 1 /\ lines_data[k].spk = "N" /\ params.hide_n_label)
                          => clips[k].texts[r].text = BodyOf(k, r)

\* a composed row 0 of seventeen kana, wrapped in two lines
C17_Witness ==
    /\ clips # <<>>
    /\ row_str[1][1] = Rep("KANA", CJK_WIDTH_TOP + 1)
    /\ Len(lines_of(BodyOf(1, 1))) = 2
    /\ Len(lines_of(BodyOf(1, 1))[1]) = CJK_WIDTH_TOP


\* slots i and j have the same speaker, row texts and rendered sizes
SameRows(i, j) ==
    /\ lines_data[i].spk = lines_data[j].spk
    /\ row_str[i] = row_str[j]
    /\ measure[i] = measure[j]

\* C18: the coordinates of the caption block of a slot depend on the rows of
\* that slot only: two slots of one run with the same rows have the same
\* elements at the same coordinates, before and after the overflow
\* correction, whatever was composed before them
C18_LayoutPure ==
    \A i \in DOMAIN clips :
        \A j \in DOMAIN clips :
            SameRows(i, j) =>
                /\ clips[i].placed = clips[j].placed
                /\ clips[i].elem = clips[j].elem
                /\ clips[i].texts = clips[j].texts

\* two composed slots with the same rows, the second composed after the
\* first, whose block was moved by the overflow correction
C18_Witness ==
    /\ Len(clips) = 2
    /\ SameRows(1, 2)
    /\ clips[1].elem # clips[1].placed
    /\ clips[2].elem = clips[1].elem


\* C19: speech synthesis never fails: the run is never ended inside the TTS
\* loop, and once the loop is over there is one clip for every utterance
C19_SpeakNeverFails ==
    /\ pc = "failed" => Len(audio_parts) = Len(valid_dialogue)
    /\ pc \notin {"hook", "tts", "failed"} => Len(audio_parts) = Len(valid_dialogue)

\* C20: for every word line (role 0 or 1) whose translation is asked for,
\* the example handed to translate_word_context is the example sentence of
\* the same word, the third line of its block, with or without a hook line
C20_ExampleOfSameBlock ==
    \A i \in DOMAIN example_ctx :
        valid_dialogue[i].role \in {0, 1} /\ subs >= 2 =>
            /\ example_ctx[i].called
            /\ example_ctx[i].example = [word |-> valid_dialogue[i].word, role |-> 2]


\* C21: a block whose lowest panel does not pass SCREEN_H - BOTTOM_MARGIN
\* is not shifted: every panel and every text keeps the position the row
\* loop gave it, the text of row 0 at y = POS_Y
C21_NoShiftWithoutOverflow ==
    \A k \in DOMAIN clips :
        Excess(k) <= 0 =>
            /\ clips[k].elem = clips[k].placed
            /\ TextOf(clips[k].elem, 1).y = POS_Y

\* C22: with two rows the second row has the typography of the bottom row:
\* font size fsize_bot or FONT_SIZE_BOT and CJK wrap width CJK_WIDTH_BOT
C22_TwoRowTypography ==
    subs = 2 =>
        \A k \in DOMAIN clips :
            /\ clips[k].texts[2].font_size
                  = (IF params.fsize_bot = 0 THEN FONT_SIZE_BOT ELSE params.fsize_bot)
            /\ clips[k].texts[2].cjk_width = CJK_WIDTH_BOT

\* C28: in every composed block, whatever the row heights, the bottom edge
\* of the lowest panel is at or above SCREEN_H - BOTTOM_MARGIN
C28_WithinSafeLine ==
    \A k \in DOMAIN clips :
        PanelOf(clips[k].elem, subs).y + PanelOf(clips[k].elem, subs).h
            <= SCREEN_H - BOTTOM_MARGIN

\* a composed block of rows of different heights whose lowest panel was
\* placed below the safe line and moved by the correction
C28_Witness ==
    \E k \in DOMAIN clips :
        /\ subs >= 2
        /\ measure[k][1].h # measure[k][2].h
        /\ PanelOf(clips[k].placed, subs).y + PanelOf(clips[k].placed, subs).h
              > SCREEN_H - BOTTOM_MARGIN
        /\ clips[k].elem # clips[k].placed


\* frames on the track before the clip piece of utterance idx
RECURSIVE ClipOffset(_, _)
ClipOffset(track, idx) ==
    IF track = <<>> THEN 0
    ELSE IF Head(track).idx = idx /\ Head(track).kind = "clip" THEN 0
    ELSE Head(track).frames + ClipOffset(Tail(track), idx)

\* start_i: the sum of the slot durations before slot i, in milliseconds
SlotStart(i) == SumSeq(SubSeq(durs, 1, i - 1))

\* C27: on the returned track the speech of clip i starts exactly at
\* start_i + pre_ms, start_i being the sum of the earlier slot durations,
\* and ends inside the window [start_i, start_i + slot_i) of its slot
\* (positions compared in frames * 1000 = milliseconds * rate)
C27_SpeechInsideSlot ==
    Returned =>
        \A i \in DOMAIN durs :
            LET off == ClipOffset(combined, i - 1)
                n   == audio_parts[i].frames
            IN  /\ 1000 * off = (SlotStart(i) + cfg.pre_ms) * cfg.rate
                /\ 1000 * off >= SlotStart(i) * cfg.rate
                /\ 1000 * (off + n) <= (SlotStart(i) + durs[i]) * cfg.rate


\* the failed next_chunk calls among the first i calls
Failures(i) == Cardinality({j \in 1..i : calls[j] # NoError})

\* a 5xx/backendError HttpError without a quota text, or a non-HTTP exception
Transient(e) ==
    \/ e.type = "HttpError" /\ ~e.quota /\ (e.status >= 500 \/ e.backend)
    \/ e.type = "Exception"

UploadDone == response # NoResponse \/ raised # NoError

UploadSafe ==
    /\ Failures(Len(calls)) <= max_attempts
    /\ \A i \in DOMAIN calls :
          LET e == calls[i]
              k == Failures(i)
          IN  /\ e.type = "HttpError" /\ e.quota =>
                    /\ i = Len(calls)
                    /\ raised = [e EXCEPT !.type = "RuntimeError"]
                    /\ Len(sleeps) = k - 1
              /\ Transient(e) /\ k < max_attempts =>
                    /\ ~(i = Len(calls) /\ raised # NoError)
                    /\ Len(sleeps) >= k
                    /\ sleeps[k] = (IF k = 1 THEN base_sleep ELSE 2 * sleeps[k - 1])
    /\ ~(response # NoResponse /\ raised # NoError)
    /\ response # NoResponse => media.sent = media.chunks /\ calls[Len(calls)] = NoError
    /\ raised # NoError => calls[Len(calls)] # NoError

\* C24: _resumable_insert terminates. A quota/upload-limit HttpError is
\* raised at once with no retry; a 5xx/backendError HttpError or a non-HTTP
\* exception is retried after a sleep that doubles from base_sleep; and the
\* call returns the response or raises after at most max_attempts failed
\* next_chunk calls over the whole upload
C24_InsertTerminates == []UploadSafe /\ <>UploadDone

\* an upload that raised on its fifth failure after four backed-off retries,
\* with chunks taken between the failures
C24_Witness ==
    /\ raised # NoError
    /\ raised.type # "RuntimeError"
    /\ Failures(Len(calls)) = max_attempts
    /\ Len(sleeps) = max_attempts - 1
    /\ media.sent > 0
    /\ \E i, j \in DOMAIN calls : i < j /\ calls[i] # NoError /\ calls[j] = NoError


\* C25: the text generate_hook returns has at most HOOK_MAX_CHARS characters
\* for en and pt and at most HOOK_MAX_CHARS + 5 for ja and ko, the
\* truncation mark counted
C25_HookLength ==
    hook_out.returned =>
        /\ hook_args.audio_lang \in {"en", "pt"} => Len(hook_out.text) <= HOOK_MAX_CHARS
        /\ hook_args.audio_lang \in {"ja", "ko"} => Len(hook_out.text) <= HOOK_MAX_CHARS + 5


\* the parent run_all has gone through all its combos
ParentDone ==
    /\ combos_yaml # <<>>
    /\ ~invocation.isolated
    /\ ~child.running
    /\ parent_i > Len(selected(invocation.target_only))

\* the run_one calls for combo k of combos.yaml
RunsOf(k) == {j \in DOMAIN run_log : run_log[j].combo = k}

\* C23: in parent mode one child is started per account, and when the
\* parent is done run_one was called exactly once for every combo that
\* passes the account filter, also when combos share an account
C23_OncePerCombo ==
    ParentDone =>
        LET sel == selected(invocation.target_only)
        IN  /\ parent_i - 1 = Cardinality({combos_yaml[sel[j]].account : j \in DOMAIN sel})
            /\ \A j \in DOMAIN sel : Cardinality(RunsOf(sel[j])) = 1

\* C26: in one isolated run, after the candidates of a language were
\* fetched and cached for a combo, a later combo with the same trend
\* language within cache_ttl_minutes gets them from the cache, with no new
\* HTTP fetch
C26_TrendCacheReuse ==
    \A i, j \in DOMAIN trend_log :
        /\ i < j
        /\ trend_log[i].child = trend_log[j].child
        /\ trend_log[i].how = "http"
        /\ trend_log[i].lang = trend_log[j].lang
        /\ trend_log[j].at - trend_log[i].at <= cache_ttl_minutes
        => trend_log[j].how = "cache"

\* C29: in an isolated run started with AUTO_TREND every combo attempts the
\* trend fetch first, also the combos after one whose fetch failed
C29_FallbackPerCombo ==
    invocation.topic = "AUTO_TREND" =>
        \A j \in DOMAIN run_log : run_log[j].trend # "none"

====
